---- MODULE Spec2Model ----
(***************************************************************************)
(* A model of the smart-autocomplete content script (src/src/content.js):  *)
(* the LRU cache, the text-cleaning and sentence functions, and the        *)
(* trigger / completion-request cycle of class SmartAutocomplete.          *)
(*                                                                         *)
(* Strings are sequences of one-character strings.  A fixed user-visible   *)
(* message is a one-element sequence holding the whole message, so that    *)
(* every text value of the program is a sequence and can be compared.      *)
(***************************************************************************)
EXTENDS Integers, Sequences, FiniteSets, TLC

(***************************************************************************)
(* Characters and JavaScript string primitives                             *)
(***************************************************************************)

\* \s of the regular expressions and the characters String.prototype.trim removes
WS == {" ", "\n"}

\* [.!?] : the sentence terminators of the regular expressions
Terminators == {".", "!", "?"}

\* [,;:.!?] : the leading punctuation removed by /^[,;:.!?]+\s*/
LeadPunct == {",", ";", ":", ".", "!", "?"}

\* charCodeAt for the printable ASCII characters (codes 32..126) and the newline;
\* the backslash (92) and the backquote (96) only hold their places in the table
Ascii == <<" ", "!", "\"", "#", "$", "%", "&", "'", "(", ")", "*", "+", ",", "-", ".", "/",
           "0", "1", "2", "3", "4", "5", "6", "7", "8", "9", ":", ";", "<", "=", ">", "?",
           "@", "A", "B", "C", "D", "E", "F", "G", "H", "I", "J", "K", "L", "M", "N", "O",
           "P", "Q", "R", "S", "T", "U", "V", "W", "X", "Y", "Z", "[", "(92)", "]", "^", "_",
           "(96)", "a", "b", "c", "d", "e", "f", "g", "h", "i", "j", "k", "l", "m", "n", "o",
           "p", "q", "r", "s", "t", "u", "v", "w", "x", "y", "z", "{", "|", "}", "~">>

CharCodeAt(c) == IF c = "\n" THEN 10 ELSE 31 + (CHOOSE i \in 1..95 : Ascii[i] = c)

\* the characters removed by norm() in removeContextOverlap
NormPunct == {",", ".", ";", ":", "!", "?", "-", "(", ")", "[", "]", "{", "}", "\"", "'"}

UpperCase == <<"A","B","C","D","E","F","G","H","I","J","K","L","M",
               "N","O","P","Q","R","S","T","U","V","W","X","Y","Z">>
LowerCase == <<"a","b","c","d","e","f","g","h","i","j","k","l","m",
               "n","o","p","q","r","s","t","u","v","w","x","y","z">>

UpperSet == {UpperCase[i] : i \in 1..26}

LowerChar(c) ==
  IF c \in UpperSet THEN LowerCase[CHOOSE i \in 1..26 : UpperCase[i] = c] ELSE c

\* String.prototype.toLowerCase
ToLowerCase(s) == [i \in 1..Len(s) |-> LowerChar(s[i])]

Min2(a, b) == IF a < b THEN a ELSE b
Max2(a, b) == IF a > b THEN a ELSE b

\* s.slice(k) for k >= 0 (0-based start index)
SliceFrom(s, k) == SubSeq(s, Min2(k, Len(s)) + 1, Len(s))

\* s.slice(-n) for n > 0 : the last n characters
SliceLast(s, n) == SubSeq(s, Max2(Len(s) - n, 0) + 1, Len(s))

\* s.slice(0, -n) for n > 0 : everything except the last n characters
SliceButLast(s, n) == SubSeq(s, 1, Max2(Len(s) - n, 0))

\* s.slice(0, n)
SlicePrefix(s, n) == SubSeq(s, 1, Min2(n, Len(s)))

\* the first and the last character of s that is not whitespace (0: there is none)
FirstInk(s) ==
  IF \A i \in 1..Len(s) : s[i] \in WS THEN 0
  ELSE CHOOSE i \in 1..Len(s) : s[i] \notin WS /\ \A j \in 1..(i - 1) : s[j] \in WS

LastInk(s) ==
  IF \A i \in 1..Len(s) : s[i] \in WS THEN 0
  ELSE CHOOSE i \in 1..Len(s) : s[i] \notin WS /\ \A j \in (i + 1)..Len(s) : s[j] \in WS

\* String.prototype.trimStart
TrimStart(s) == IF FirstInk(s) = 0 THEN << >> ELSE SubSeq(s, FirstInk(s), Len(s))

\* String.prototype.trim
Trim(s) == IF FirstInk(s) = 0 THEN << >> ELSE SubSeq(s, FirstInk(s), LastInk(s))

\* String.prototype.startsWith
StartsWith(s, p) == Len(p) <= Len(s) /\ SubSeq(s, 1, Len(p)) = p

\* String.prototype.includes
Includes(s, p) == \E i \in 0..(Len(s) - Len(p)) : SubSeq(s, i + 1, i + Len(p)) = p

\* s.replace(/^[,;:.!?]+\s*/, '')
StripLeadingPunct(s) ==
  LET nonP == {i \in 1..Len(s) : s[i] \notin LeadPunct}
      p    == IF nonP = {} THEN Len(s) + 1 ELSE CHOOSE i \in nonP : \A j \in nonP : i <= j
      nonW == {i \in p..Len(s) : s[i] \notin WS}
      q    == IF nonW = {} THEN Len(s) + 1 ELSE CHOOSE i \in nonW : \A j \in nonW : i <= j
  IN  IF p = 1 THEN s ELSE SubSeq(s, q, Len(s))

\* s.replace(/pat/gi, '') for a literal pattern: leftmost matches, left to right,
\* compared without regard to case
RECURSIVE RemoveAllCI(_, _)
RemoveAllCI(s, pat) ==
  LET hits == {i \in 1..(Len(s) - Len(pat) + 1) :
                 ToLowerCase(SubSeq(s, i, i + Len(pat) - 1)) = ToLowerCase(pat)}
  IN  IF hits = {} THEN s
      ELSE LET i == CHOOSE h \in hits : \A g \in hits : h <= g
           IN  SubSeq(s, 1, i - 1) \o RemoveAllCI(SubSeq(s, i + Len(pat), Len(s)), pat)

\* Array.prototype.join
RECURSIVE Join(_, _)
Join(parts, sep) ==
  IF Len(parts) = 0 THEN << >>
  ELSE IF Len(parts) = 1 THEN parts[1]
  ELSE parts[1] \o sep \o Join(Tail(parts), sep)

(***************************************************************************)
(* stripCursorArtifacts, removeContextOverlap, cleanCompletionText         *)
(***************************************************************************)

StripCursorArtifacts(text) ==
  IF text = << >> THEN text
  ELSE Trim(RemoveAllCI(RemoveAllCI(RemoveAllCI(RemoveAllCI(text,
         <<"[","C","U","R","S","O","R","]">>),
         <<"[","C","U","R","S">>),
         <<"C","U","R","S","O","R","]">>),
         <<"C","U","R">>))

\* replace(/[\s]+/g, ' ') : every run of whitespace becomes one space
CollapseWS(s) ==
  LET firstOfRun(i) == s[i] \notin WS \/ i = 1 \/ s[i-1] \notin WS
      kept          == SelectSeq([i \in 1..Len(s) |-> i], firstOfRun)
  IN  [k \in 1..Len(kept) |-> IF s[kept[k]] \in WS THEN " " ELSE s[kept[k]]]

RemoveNormPunct(s) == SelectSeq(s, LAMBDA c : c \notin NormPunct)

\* norm() of removeContextOverlap (the zero-width characters it strips are not in
\* the model's alphabet)
Norm(s) == Trim(RemoveNormPunct(CollapseWS(ToLowerCase(s))))

MaxWindowChars == 120

\* the largest i in 1..Min(|a|,|b|) with a.slice(-i) = b.slice(0,i), else 0
LongestOverlap(a, b) ==
  LET m    == Min2(Len(a), Len(b))
      hits == {i \in 1..m : SliceLast(a, i) = SubSeq(b, 1, i)}
  IN  IF hits = {} THEN 0 ELSE CHOOSE i \in hits : \A j \in hits : i >= j

\* the while loop: the least idx with norm(comp.slice(0,idx)).length >= normOverlap,
\* or comp.length when there is none
WalkIndex(comp, normOverlap) ==
  LET ok == {i \in 0..Len(comp) : Len(Norm(SubSeq(comp, 1, i))) >= normOverlap}
  IN  IF ok = {} THEN Len(comp) ELSE CHOOSE i \in ok : \A j \in ok : i <= j

\* sliceIndex of removeContextOverlap, from the two overlaps found
SliceIndex(comp, directOverlap, normOverlap) ==
  IF normOverlap > directOverlap
  THEN Max2(directOverlap, WalkIndex(comp, normOverlap))
  ELSE directOverlap

\* the result of removeContextOverlap once sliceIndex is known
CutOverlap(comp, sliceIndex) ==
  IF sliceIndex > 0
  THEN StripLeadingPunct(TrimStart(SliceFrom(comp, sliceIndex)))
  ELSE comp

\* removeContextOverlap on before = the window of beforeCursor
OverlapInWindow(before, comp) ==
  CutOverlap(comp, SliceIndex(comp,
                              LongestOverlap(ToLowerCase(before), ToLowerCase(comp)),
                              LongestOverlap(Norm(before), Norm(comp))))

RemoveContextOverlap(beforeCursor, completion) ==
  OverlapInWindow(SliceLast(beforeCursor, MaxWindowChars), completion)

\* beforeCursor.match(/[^.!?]*$/)[0].trim()
LastSentence(beforeCursor) ==
  LET terms == {i \in 1..Len(beforeCursor) : beforeCursor[i] \in Terminators}
      last  == IF terms = {} THEN 0 ELSE CHOOSE i \in terms : \A j \in terms : i >= j
  IN  Trim(SubSeq(beforeCursor, last + 1, Len(beforeCursor)))

\* cleanCompletionText: the completion that starts with the last sentence of the
\* text before the cursor loses that many characters
DropLastSentence(completion, lastSentence) ==
  IF lastSentence # << >> /\ StartsWith(ToLowerCase(completion), ToLowerCase(lastSentence))
  THEN Trim(SliceFrom(completion, Len(lastSentence)))
  ELSE completion

\* cleanCompletionText(completion, contextData); contextData is never null at the
\* call sites, so only the !completion test is kept
CleanCompletionText(completion, beforeCursor) ==
  IF completion = << >> THEN completion
  ELSE StripLeadingPunct(
         DropLastSentence(
           RemoveContextOverlap(beforeCursor, StripCursorArtifacts(completion)),
           LastSentence(beforeCursor)))

(***************************************************************************)
(* shouldEarlyStopStreaming, limitToSentenceRange                          *)
(***************************************************************************)

\* a match of /[\.\!\?](\s|$)/ starts at position i
TerminatorAt(s, i) == s[i] \in Terminators /\ (i = Len(s) \/ s[i+1] \in WS)

\* stopping only after more than maxSentences sentence ends
ShouldEarlyStopStreamingLate(text, maxS) ==
  IF text = << >> THEN FALSE
  ELSE Cardinality({i \in 1..Len(text) : TerminatorAt(text, i)}) > maxS

ShouldEarlyStopStreaming(text, maxS) ==
  IF text = << >> THEN FALSE
  ELSE Cardinality({i \in 1..Len(text) : TerminatorAt(text, i)}) >= maxS

\* text.split(/([\.\!\?](?:\s|$))/) from position p on: segment, separator, segment, ...
RECURSIVE SplitSentences(_, _)
SplitSentences(s, p) ==
  LET ms == {i \in p..Len(s) : TerminatorAt(s, i)}
  IN  IF ms = {} THEN << SubSeq(s, p, Len(s)) >>
      ELSE LET i == CHOOSE m \in ms : \A n \in ms : m <= n
               e == IF i < Len(s) THEN i + 1 ELSE i
           IN  << SubSeq(s, p, i - 1), SubSeq(s, i, e) >> \o SplitSentences(s, e + 1)

\* the loop without its break at maxSentences
RECURSIVE LimitLoopWithoutBreak(_, _, _, _)
LimitLoopWithoutBreak(tokens, i, sentences, maxS) ==
  IF i > Len(tokens) THEN sentences
  ELSE LET seg == Trim(tokens[i])
           end == IF i + 1 <= Len(tokens) THEN tokens[i + 1] ELSE << >>
       IN  IF seg = << >> THEN LimitLoopWithoutBreak(tokens, i + 2, sentences, maxS)
           ELSE LimitLoopWithoutBreak(tokens, i + 2, Append(sentences, seg \o end), maxS)

\* the for loop of limitToSentenceRange over tokens[i], tokens[i+1]
RECURSIVE LimitLoop(_, _, _, _)
LimitLoop(tokens, i, sentences, maxS) ==
  IF i > Len(tokens) THEN sentences
  ELSE LET seg == Trim(tokens[i])
           end == IF i + 1 <= Len(tokens) THEN tokens[i + 1] ELSE << >>
       IN  IF seg = << >> THEN LimitLoop(tokens, i + 2, sentences, maxS)
           ELSE IF Len(sentences) + 1 >= maxS THEN Append(sentences, seg \o end)
           ELSE LimitLoop(tokens, i + 2, Append(sentences, seg \o end), maxS)

LimitToSentenceRange(text, minS, maxS) ==
  IF text = << >> THEN text
  ELSE Trim(Join(LimitLoop(SplitSentences(text, 1), 1, << >>, maxS), <<" ">>))

(***************************************************************************)
(* The streaming loop and the finalization of generateCompletionStreaming  *)
(***************************************************************************)

\* the loop body once the chunk is appended and the buffer cleaned
Appended(accumulated, cleaned, maxS) ==
  [accumulated |-> accumulated, consumed |-> TRUE, cleaned |-> cleaned,
   earlyStop |-> ShouldEarlyStopStreaming(cleaned, maxS)]

\* One chunk of the for-await loop ("iterator") or one call of the onToken callback
\* ("callback"): the callback returns at once after an early stop; otherwise the
\* chunk is appended, the buffer cleaned and the early stop decided
StreamStep(accumulated, earlyStop, style, chunk, beforeCursor, maxS) ==
  IF style = "callback" /\ earlyStop
  THEN [accumulated |-> accumulated, earlyStop |-> TRUE, consumed |-> FALSE,
        cleaned |-> << >>]
  ELSE Appended(accumulated \o chunk,
                CleanCompletionText(accumulated \o chunk, beforeCursor), maxS)

\* finalText of generateCompletionStreaming
FinalStreamText(accumulated, beforeCursor, minS, maxS) ==
  LimitToSentenceRange(Trim(CleanCompletionText(accumulated, beforeCursor)), minS, maxS)

(***************************************************************************)
(* buildCacheKey                                                           *)
(***************************************************************************)

\* hash = ((hash << 5) - hash) + chr; hash |= 0  : 31*hash + chr wrapped to a signed
\* 32-bit integer, computed on 16-bit halves
HashStep(hash, chr) ==
  LET lo  == hash % 65536
      hi  == (hash \div 65536) % 65536
      lo2 == lo * 31 + chr
      hi2 == (hi * 31 + (lo2 \div 65536)) % 65536
  IN  (IF hi2 >= 32768 THEN hi2 - 65536 ELSE hi2) * 65536 + (lo2 % 65536)

\* the loop over keyPayload[lo..hi], split in halves to keep the evaluation shallow;
\* the test on left has the first half computed before the second is entered
RECURSIVE HashFrom(_, _, _, _)
HashFrom(payload, lo, hi, hash) ==
  IF lo > hi THEN hash
  ELSE IF lo = hi THEN HashStep(hash, CharCodeAt(payload[lo]))
  ELSE LET mid  == (lo + hi) \div 2
           left == HashFrom(payload, lo, mid, hash)
       IN  IF left = left THEN HashFrom(payload, mid + 1, hi, left) ELSE hash

RecentChars == 200

\* buildCacheKey as it would be without the slice(-200)
BuildCacheKeyOfWholeText(site, beforeCursor, language) ==
  LET keyPayload == site \o <<"|">> \o beforeCursor \o <<"|">> \o language
  IN  << "k:", HashFrom(keyPayload, 1, Len(keyPayload), 0) >>

\* buildCacheKey(contextData, language) with location.hostname = site; the key
\* 'k:' + hash is the pair of the prefix and the number
BuildCacheKey(site, beforeCursor, language) ==
  LET keyPayload == site \o <<"|">> \o SliceLast(beforeCursor, RecentChars) \o <<"|">> \o language
  IN  << "k:", HashFrom(keyPayload, 1, Len(keyPayload), 0) >>

(***************************************************************************)
(* class LRUCache: map is the Map in insertion order, oldest first         *)
(***************************************************************************)

NullText == << "null" >>

NewLRUCache(capacity) == [capacity |-> capacity, map |-> << >>]

MapHas(map, key) == \E i \in 1..Len(map) : map[i].key = key

MapGet(map, key) == map[CHOOSE i \in 1..Len(map) : map[i].key = key].value

MapDelete(map, key) == SelectSeq(map, LAMBDA en : en.key # key)

\* Map.prototype.set on a key the map does not hold: appended last
MapAppend(map, key, value) == Append(map, [key |-> key, value |-> value])

\* LRUCache.get: the value returned
LRUGetValue(c, key) == IF MapHas(c.map, key) THEN MapGet(c.map, key) ELSE NullText

\* a get that leaves the Map's order alone
LRUGetWithoutReorder(c, key) == c

\* LRUCache.get: the cache afterwards
LRUGet(c, key) ==
  IF ~MapHas(c.map, key) THEN c
  ELSE [c EXCEPT !.map = MapAppend(MapDelete(c.map, key), key, MapGet(c.map, key))]

\* a set that, over the capacity, deletes the entry it has just written
LRUSetDeletingNewest(c, key, value) ==
  LET m1 == IF MapHas(c.map, key) THEN MapDelete(c.map, key) ELSE c.map
      m2 == MapAppend(m1, key, value)
  IN  [c EXCEPT !.map = IF Len(m2) > c.capacity THEN MapDelete(m2, key) ELSE m2]

\* LRUCache.set
LRUSet(c, key, value) ==
  LET m1 == IF MapHas(c.map, key) THEN MapDelete(c.map, key) ELSE c.map
      m2 == MapAppend(m1, key, value)
  IN  [c EXCEPT !.map = IF Len(m2) > c.capacity THEN MapDelete(m2, m2[1].key) ELSE m2]

(***************************************************************************)
(* State                                                                   *)
(***************************************************************************)

VARIABLES
  \* fields of SmartAutocomplete
  isModelReady, isDownloading, activeElement, ghostTextElement, currentCompletion,
  savedCursorPosition, languageModel, summarizer, languageDetector, abortController,
  cache, siteEnabled, minSentences, maxSentences, lastTriggerTs, lastStreamUpdateMs,
  triggers, lastSpaceTimeMs, punctuationTimer,
  \* the environment of the engine
  clock,            \* performance.now()
  selfLanguageModel,\* the LanguageModel API of the browser: "absent", or how its
                    \* sessions stream ("iterator", "callback") or "batch" for none
  selfHelpers,      \* the browser has the Summarizer and LanguageDetector APIs
  aborted,          \* the AbortControllers whose signal is aborted
  sitePrefPending,  \* the chrome.storage callback of loadSitePreference has not run yet
  sitePrefs,        \* chrome.storage.local: site_prefs[location.hostname] !== false
  procs,            \* the invocations of handleTrigger that have not returned
  \* history kept for the properties
  returned,         \* the invocation of handleTrigger that returned last
  triggerLog,       \* the last two eligible triggers and the last admission
  raised,           \* the listener that called handleTrigger last, and the flags then
  spaceLog,         \* the last keyup of Space the listener took, and the one before it
  inserted,         \* what acceptGhostText inserted last into the text input
  \* LRUCache exercised alone
  lruCache, lruRecency, lruOps, lruLast, lruLastSet,
  \* limitToSentenceRange exercised alone
  txIn, txOut,
  \* the streaming loop of generateCompletionStreaming exercised alone
  st

engineVars == << isModelReady, isDownloading, activeElement, ghostTextElement,
                 currentCompletion, savedCursorPosition, languageModel, summarizer,
                 languageDetector, abortController, cache, siteEnabled, minSentences,
                 maxSentences, lastTriggerTs, lastStreamUpdateMs, clock, aborted,
                 selfLanguageModel, selfHelpers, sitePrefPending, sitePrefs, procs,
                 returned, triggerLog, triggers, lastSpaceTimeMs, punctuationTimer,
                 raised, spaceLog, inserted >>
\* the trigger policy: what the optional listeners and updateSettingsFromObject write
policyVars == << triggers, lastSpaceTimeMs, punctuationTimer, raised, spaceLog >>
\* the fields of SmartAutocomplete the handlers write, and the aborted signals
engineFields == << isModelReady, isDownloading, activeElement, ghostTextElement,
                   currentCompletion, savedCursorPosition, languageModel, summarizer,
                   languageDetector, abortController, cache, lastTriggerTs,
                   lastStreamUpdateMs, aborted >>
lruVars    == << lruCache, lruRecency, lruOps, lruLast, lruLastSet >>
textVars   == << txIn, txOut >>
streamVars == << st >>
vars       == << engineVars, lruVars, textVars, streamVars >>

(***************************************************************************)
(* Construction: the constructor of SmartAutocomplete                      *)
(***************************************************************************)

MaxRequests == 2

DefaultCacheCapacity == 60
DefaultMinSentences == 1
DefaultMaxSentences == 3
MinTriggerIntervalMs == 350

Requests == 1..MaxRequests

NoGhost == [exists |-> FALSE, textContent |-> << >>, state |-> "none"]
NoKey == << "none", 0 >>
\* contextData is kept as the element it was read from and what was done to the
\* text before the cursor ("raw", "summarized", "truncated")
NoContext == [element |-> "none", processed |-> "none"]

\* an invocation of handleTrigger that has not started: its position, the locals of
\* generateCompletion and generateCompletionStreaming, and (from cancelled on) the
\* record of what happened to it
\* no result of languageDetector.detect() yet
NoDetection == [results |-> -2, detectedLanguage |-> << >>, confidence |-> 0]

\* no response of languageModel.prompt() yet
NoResponse == [kind |-> "none", accept |-> FALSE, confidence |-> 0, sentences |-> << >>]

IdleProc ==
  [ pc |-> "idle", ctx |-> NoContext, key |-> NoKey, signal |-> 0,
    accumulated |-> << >>, chunks |-> 0, earlyStop |-> FALSE, monitor |-> FALSE,
    cancelled |-> FALSE, blank |-> FALSE, hit |-> NullText, status |-> "none",
    offered |-> NullText, detectCalls |-> 0, modelCalls |-> 0, cacheWrites |-> 0,
    response |-> NoResponse, language |-> << >>, detection |-> NoDetection,
    detectArg |-> NullText ]

\* what is remembered of the invocation that returned last; focused, stored and
\* keyIsLast tell of the moment of the return whether an element had the focus, what
\* the cache held under the key of the invocation and whether that entry was the
\* last one of the Map
NoReturn ==
  [ status |-> "none", blank |-> FALSE, hit |-> NullText, offered |-> NullText,
    detectCalls |-> 0, modelCalls |-> 0, cacheWrites |-> 0, focused |-> FALSE,
    stored |-> NullText, keyIsLast |-> FALSE, response |-> NoResponse,
    shown |-> NoGhost, completion |-> NullText, ctx |-> NoContext,
    language |-> << >>, detection |-> NoDetection ]

NoTrigger == [t |-> -1, admitted |-> FALSE, quiet |-> FALSE]

\* the history of the triggers: the last eligible trigger, the one before it, the
\* time of the last admission and the time between the last two admissions; it is
\* kept only where on is set
NoTriggerLog ==
  [on |-> FALSE, prev |-> NoTrigger, cur |-> NoTrigger, admitT |-> -1, admitGap |-> -1]

\* this.triggers as the constructor sets it
NoTriggers == [ctrlEnter |-> FALSE, doubleSpace |-> FALSE, autoAfterPunctuation |-> FALSE]

\* no listener has called handleTrigger yet
NoRaise == [by |-> "none", triggers |-> NoTriggers, at |-> -1]

\* no keyup of Space yet; at and prev are times, -1 for none
NoSpace == [at |-> -1, called |-> FALSE, prev |-> -1, prevCalled |-> FALSE]

\* acceptGhostText has inserted nothing yet
NoInsert == [text |-> NullText, at |-> -1, state |-> "none", saved |-> -1]

EngineStart ==
  /\ inserted = NoInsert
  /\ triggers = NoTriggers
  /\ lastSpaceTimeMs = 0
  /\ punctuationTimer = -1
  /\ raised = NoRaise
  /\ spaceLog = NoSpace
  /\ isModelReady = FALSE
  /\ isDownloading = FALSE
  /\ activeElement = "none"
  /\ ghostTextElement = NoGhost
  /\ currentCompletion = NullText
  /\ savedCursorPosition = -1
  /\ languageModel = "none"
  /\ summarizer = FALSE
  /\ languageDetector = FALSE
  /\ abortController = 0
  /\ cache = NewLRUCache(DefaultCacheCapacity)
  /\ siteEnabled = TRUE
  /\ minSentences = DefaultMinSentences
  /\ maxSentences = DefaultMaxSentences
  /\ lastTriggerTs = 0
  /\ lastStreamUpdateMs = 0
  /\ clock = 0
  /\ aborted = {}
  /\ sitePrefPending = TRUE
  /\ procs = [r \in Requests |-> IdleProc]
  /\ returned = NoReturn

EngineInit == EngineStart /\ triggerLog = NoTriggerLog /\ sitePrefs = TRUE

(***************************************************************************)
(* LRUCache alone: any sequence of get and set on a cache of capacity      *)
(* LruCapacity.  lruRecency lists the keys held, least recently touched    *)
(* first, kept independently of the Map's order.                           *)
(***************************************************************************)

LruCapacity == 2
MaxLruOps == 5

LruKeys == 1..(LruCapacity + 1)
LruValues == { <<"a">>, <<"b">> }

\* no set yet
NoSet == [key |-> 0, value |-> NullText]

LruInit ==
  /\ lruCache = NewLRUCache(LruCapacity)
  /\ lruRecency = << >>
  /\ lruOps = 0
  /\ lruLast = [op |-> "none", key |-> 0, value |-> NullText, found |-> FALSE,
                overflow |-> FALSE, evicted |-> {}, expected |-> {}]
  /\ lruLastSet = NoSet

\* the engine is not exercised: no trigger reaches it
EngineIdle == selfLanguageModel = "absent" /\ selfHelpers = FALSE

TextIdle ==
  /\ txIn = [text |-> << >>, minS |-> 1, maxS |-> 1]
  /\ txOut = [done |-> FALSE, limited |-> << >>]

StreamIdle ==
  st = [output |-> << >>, before |-> << >>, maxS |-> 1, style |-> "none", pos |-> 0,
        acc |-> << >>, earlyStop |-> FALSE, phase |-> "idle", finalText |-> << >>,
        reachedAt |-> -1]

MapKeys(map) == {map[i].key : i \in 1..Len(map)}

Touch(recency, key) == Append(SelectSeq(recency, LAMBDA k : k # key), key)

LruGetStep(key) ==
  /\ lruOps < MaxLruOps
  /\ lruOps' = lruOps + 1
  /\ lruCache' = LRUGet(lruCache, key)
  /\ lruRecency' = IF key \in MapKeys(lruCache.map) THEN Touch(lruRecency, key)
                   ELSE lruRecency
  /\ lruLast' = [op |-> "get", key |-> key, value |-> LRUGetValue(lruCache, key),
                 found |-> key \in MapKeys(lruCache.map), overflow |-> FALSE,
                 evicted |-> {}, expected |-> {}]
  /\ UNCHANGED << lruLastSet, engineVars, textVars, streamVars >>

LruSetStep(key, value) ==
  LET touched  == Touch(lruRecency, key)
      overflow == Len(touched) > lruCache.capacity
      after    == LRUSet(lruCache, key, value)
  IN  /\ lruOps < MaxLruOps
      /\ lruOps' = lruOps + 1
      /\ lruCache' = after
      /\ lruRecency' = SelectSeq(touched, LAMBDA k : k \in MapKeys(after.map))
      /\ lruLast' = [op |-> "set", key |-> key, value |-> value, found |-> FALSE,
                     overflow |-> overflow,
                     evicted |-> (MapKeys(lruCache.map) \cup {key}) \ MapKeys(after.map),
                     expected |-> IF overflow THEN {Head(touched)} ELSE {}]
      /\ lruLastSet' = [key |-> key, value |-> value]
      /\ UNCHANGED << engineVars, textVars, streamVars >>

LruGetAny == \E key \in LruKeys : LruGetStep(key)
LruSetAny == \E key \in LruKeys, value \in LruValues : LruSetStep(key, value)

LruNext == LruGetAny \/ LruSetAny

InitLRU == EngineInit /\ EngineIdle /\ LruInit /\ TextIdle /\ StreamIdle

SpecLRU == InitLRU /\ [][LruNext]_vars

\* C5: a set that makes the entries exceed the capacity removes exactly the entry
\* least recently touched by a get or a set (and a set that does not, removes
\* nothing); a get that finds its key returns its value and leaves that entry the
\* most recently used, i.e. last in the Map
C5_EvictsLeastRecentlyUsed ==
  /\ lruLast.op = "set" => lruLast.evicted = lruLast.expected
  /\ (lruLast.op = "get" /\ lruLast.found) =>
        /\ lruCache.map[Len(lruCache.map)].key = lruLast.key
        /\ lruCache.map[Len(lruCache.map)].value = lruLast.value
  /\ lruRecency = [i \in 1..Len(lruCache.map) |-> lruCache.map[i].key]

\* a set has overflowed a full cache and removed an entry that was not the first
\* one inserted
C5_Witness ==
  /\ lruLast.op = "set"
  /\ lruLast.overflow
  /\ lruLast.evicted = {2}
  /\ 1 \in MapKeys(lruCache.map)

(***************************************************************************)
(* limitToSentenceRange alone: the text is a concatenation of at most      *)
(* MaxUnits pieces                                                         *)
(***************************************************************************)

MaxUnits == 5
MaxSentenceBound == 3

SentenceUnits ==
  { <<"a", ".", " ">>, <<"b", "!", "\n">>, <<"c", ".", "d">>, <<".", " ">>, <<" ">>, <<"?">> }

RECURSIVE Flatten(_)
Flatten(parts) == IF parts = << >> THEN << >> ELSE Head(parts) \o Flatten(Tail(parts))

UnitTexts == UNION { {Flatten(u) : u \in [1..n -> SentenceUnits]} : n \in 0..MaxUnits }

TextStart ==
  /\ \E t \in UnitTexts, m \in 1..MaxSentenceBound :
        txIn = [text |-> t, minS |-> DefaultMinSentences, maxS |-> m]
  /\ txOut = [done |-> FALSE, limited |-> << >>]

ApplyLimitToSentenceRange ==
  /\ ~txOut.done
  /\ txOut' = [done |-> TRUE,
               limited |-> LimitToSentenceRange(txIn.text, txIn.minS, txIn.maxS)]
  /\ UNCHANGED << txIn, engineVars, lruVars, streamVars >>

InitText == EngineInit /\ EngineIdle /\ LruInit /\ TextStart /\ StreamIdle

SpecText == InitText /\ [][ApplyLimitToSentenceRange]_vars

\* The sentences of a text: the stretches between the sentence ends (a terminator
\* followed by whitespace or by the end of the text) that are not blank, each with
\* its surrounding whitespace removed and with the terminator that ends it ("" for
\* a last stretch that has none)
SentenceEnds(s) == {i \in 1..Len(s) : TerminatorAt(s, i)}

SentencesOf(s) ==
  LET ends     == SentenceEnds(s)
      n        == Cardinality(ends)
      endAt(k) == CHOOSE i \in ends : Cardinality({j \in ends : j <= i}) = k
      from(k)  == IF k = 1 THEN 1
                  ELSE IF endAt(k - 1) < Len(s) THEN endAt(k - 1) + 2 ELSE endAt(k - 1) + 1
      upTo(k)  == IF k <= n THEN endAt(k) - 1 ELSE Len(s)
      all      == [k \in 1..(n + 1) |->
                     [core |-> Trim(SubSeq(s, from(k), upTo(k))),
                      term |-> IF k <= n THEN s[endAt(k)] ELSE ""]]
  IN  SelectSeq(all, LAMBDA x : x.core # << >>)

\* C10: limitToSentenceRange with maxSentences = M on a text of K sentences returns
\* exactly min(K, M) sentences: the first ones, in order, each with its terminator
C10_KeepsFirstSentences ==
  txOut.done =>
    LET given == SentencesOf(txIn.text)
    IN  SentencesOf(txOut.limited) = SubSeq(given, 1, Min2(Len(given), txIn.maxS))

\* five sentences trimmed to three
C10_Witness ==
  /\ txOut.done
  /\ txIn.maxS = 3
  /\ Len(SentencesOf(txIn.text)) = 5
  /\ Len(SentencesOf(txOut.limited)) = 3

(***************************************************************************)
(* The streaming loop alone: a model output delivered in chunks of any     *)
(* sizes, in the async-iterator style or the token-callback style          *)
(***************************************************************************)

ExampleOutput ==
  << "H","e","l","l","o"," ","t","h","e","r","e","."," ","T","h","i","s"," ","i","s"," ",
     "g","r","e","a","t","."," ","M","o","r","e"," ","t","e","x","t" >>

StreamOutputs ==
  { ExampleOutput,
    << "O","k","."," ","G","o","!"," ","N","o","?","\n","U","p","."," ","E","n","d","." >>,
    << "o","f"," ","i","t",".","[","C","U","R","S","O","R","]"," ","Y","e","s" >>,
    << >> }

StreamContexts ==
  { << "D","e","a","r"," ","a","l","l","," >>,
    << "I"," ","s","a","i","d"," ","h","e","l","l","o" >> }

StreamStart ==
  \E o \in StreamOutputs, b \in StreamContexts, m \in 1..MaxSentenceBound,
     y \in {"iterator", "callback"} :
    st = [output |-> o, before |-> b, maxS |-> m, style |-> y, pos |-> 0,
          acc |-> << >>, earlyStop |-> FALSE, phase |-> "streaming",
          finalText |-> << >>, reachedAt |-> -1]

\* the provider delivers the next n characters of its output as one chunk
StreamTaken(n, step) ==
  /\ st' = [st EXCEPT
              !.pos = st.pos + n,
              !.acc = step.accumulated,
              !.earlyStop = step.earlyStop,
              !.phase = IF st.style = "iterator" /\ step.earlyStop
                        THEN "stopped" ELSE "streaming",
              !.reachedAt =
                 IF /\ st.reachedAt = -1
                    /\ step.consumed
                    /\ Cardinality(SentenceEnds(step.cleaned)) >= st.maxS
                 THEN Len(step.accumulated) ELSE st.reachedAt]
  /\ UNCHANGED << engineVars, lruVars, textVars >>

StreamConsume(n) ==
  /\ st.phase = "streaming"
  /\ st.pos + n <= Len(st.output)
  /\ StreamTaken(n, StreamStep(st.acc, st.earlyStop, st.style,
                               SubSeq(st.output, st.pos + 1, st.pos + n), st.before,
                               st.maxS))

StreamConsumeAny == \E n \in 1..Len(st.output) : StreamConsume(n)

\* the loop is over (break, or the provider signalled the end): finalization
StreamFinish ==
  /\ \/ st.phase = "stopped"
     \/ st.phase = "streaming" /\ st.pos = Len(st.output)
  /\ st' = [st EXCEPT
              !.phase = "done",
              !.finalText = FinalStreamText(st.acc, st.before, DefaultMinSentences, st.maxS)]
  /\ UNCHANGED << engineVars, lruVars, textVars >>

InitStream == EngineInit /\ EngineIdle /\ LruInit /\ TextIdle /\ StreamStart

StreamNext == StreamConsumeAny \/ StreamFinish

SpecStream == InitStream /\ [][StreamNext]_vars

\* C9: the finalized streaming completion has at most maxSentences sentences; once
\* the cleaned projection holds maxSentences sentence ends no further chunk is added
\* to the buffer; and for maxSentences = 2 the output "Hello there. This is great.
\* More text" finalizes to its first two sentences, without the third
C9_StreamStopsAtMaxSentences ==
  /\ st.phase = "done" => Len(SentencesOf(st.finalText)) <= st.maxS
  /\ st.reachedAt # -1 => Len(st.acc) = st.reachedAt
  /\ (st.phase = "done" /\ st.output = ExampleOutput /\ st.maxS = 2) =>
        /\ Len(SentencesOf(st.finalText)) = 2
        /\ ~Includes(st.finalText, <<"M","o","r","e">>)
        /\ st.reachedAt >= 27

\* the example, finalized by an early stop before the whole output was delivered
C9_Witness ==
  /\ st.phase = "done"
  /\ st.output = ExampleOutput
  /\ st.maxS = 2
  /\ st.pos < Len(st.output)
  /\ st.reachedAt = st.pos

(***************************************************************************)
(* The engine: class SmartAutocomplete                                     *)
(***************************************************************************)

\* the fields the handlers write, and the aborted signals, as one record to which the
\* methods below are applied one after the other
This ==
  [ isModelReady |-> isModelReady, isDownloading |-> isDownloading,
    activeElement |-> activeElement, ghostTextElement |-> ghostTextElement,
    currentCompletion |-> currentCompletion, savedCursorPosition |-> savedCursorPosition,
    languageModel |-> languageModel, summarizer |-> summarizer,
    languageDetector |-> languageDetector, abortController |-> abortController,
    cache |-> cache, lastTriggerTs |-> lastTriggerTs,
    lastStreamUpdateMs |-> lastStreamUpdateMs, aborted |-> aborted ]

\* the handler returns: the fields take the values it left
Commit(t) ==
  /\ isModelReady' = t.isModelReady
  /\ isDownloading' = t.isDownloading
  /\ activeElement' = t.activeElement
  /\ ghostTextElement' = t.ghostTextElement
  /\ currentCompletion' = t.currentCompletion
  /\ savedCursorPosition' = t.savedCursorPosition
  /\ languageModel' = t.languageModel
  /\ summarizer' = t.summarizer
  /\ languageDetector' = t.languageDetector
  /\ abortController' = t.abortController
  /\ cache' = t.cache
  /\ lastTriggerTs' = t.lastTriggerTs
  /\ lastStreamUpdateMs' = t.lastStreamUpdateMs
  /\ aborted' = t.aborted

\* what only loadSitePreference writes, or nothing does
settingsVars == << siteEnabled, sitePrefPending, sitePrefs, minSentences, maxSentences,
                   selfLanguageModel, selfHelpers >>

\* clearGhostText
ClearGhostText(t) ==
  [t EXCEPT !.ghostTextElement = NoGhost,
            !.currentCompletion = NullText,
            !.savedCursorPosition = -1,
            !.aborted = IF t.abortController # 0 THEN t.aborted \cup {t.abortController}
                        ELSE t.aborted,
            !.abortController = 0]

\* completionText || displayText
Falsy(text) == text = NullText \/ text = << >>

\* showGhostText after its call of clearGhostText
CreateGhostText(t, displayText, completionText, state) ==
  IF t.activeElement = "none" THEN t
  ELSE [t EXCEPT
          !.ghostTextElement = [exists |-> TRUE, textContent |-> displayText,
                                state |-> state],
          !.currentCompletion = IF Falsy(completionText) THEN displayText
                                ELSE completionText]

\* showGhostText(displayText, completionText, state)
ShowGhostText(t, displayText, completionText, state) ==
  CreateGhostText(ClearGhostText(t), displayText, completionText, state)

\* updateGhostText(text)
UpdateGhostText(t, text) ==
  IF ~t.ghostTextElement.exists THEN t
  ELSE [t EXCEPT !.ghostTextElement.textContent = text, !.currentCompletion = text]

\* setGhostState(state)
SetGhostState(t, state) ==
  IF ~t.ghostTextElement.exists THEN t
  ELSE [t EXCEPT !.ghostTextElement.state = state]

\* the text inputs of the page; the cursor is at the end of the value
Elements == {"empty", "blank", "word", "note", "essay"}

SummarizeThreshold == 1000

EssayText == [i \in 1..(SummarizeThreshold + 2) |-> IF i % 7 = 0 THEN " " ELSE "a"]

ElementValue(el) ==
  CASE el = "empty" -> << >>
    [] el = "blank" -> << " ", " " >>
    [] el = "word"  -> << "H","i"," ","a","l","l",","," ","h" >>
    [] el = "note"  -> << "H","i"," ","a","l","l",","," ","h","o","w" >>
    [] el = "essay" -> EssayText
    [] el = "none"  -> << >>

\* location.hostname
Site == << "e","x",".","i","o" >>

\* getCurrentCursorPosition
GetCurrentCursorPosition(t) ==
  IF t.activeElement = "none" THEN -1 ELSE Len(ElementValue(t.activeElement))

\* what summarizer.summarize() returns
Summary == << "g","i","s","t" >>

\* '[Earlier context: '
EarlierContext ==
  << "[","E","a","r","l","i","e","r"," ","c","o","n","t","e","x","t",":"," " >>

\* processedBeforeCursor as it would be if the catch block kept recentContext only
ProcessedBeforeCursorKeepingRecentContext(processed, beforeCursor) ==
  CASE processed = "summarized" ->
         EarlierContext \o Summary \o << "]", "\n", "\n" >> \o SliceLast(beforeCursor, 500)
    [] processed = "truncated" -> SliceLast(beforeCursor, 500)
    [] OTHER -> beforeCursor

\* processedBeforeCursor as it would be if the summary stood for the whole text
ProcessedBeforeCursorSummaryOnly(processed, beforeCursor) ==
  CASE processed = "summarized" -> EarlierContext \o Summary \o << "]" >>
    [] processed = "truncated" -> SliceLast(beforeCursor, 800)
    [] OTHER -> beforeCursor

\* extractContext: processedBeforeCursor, for the text read from the element
ProcessedBeforeCursor(processed, beforeCursor) ==
  CASE processed = "summarized" ->
         EarlierContext \o Summary \o << "]", "\n", "\n" >> \o SliceLast(beforeCursor, 500)
    [] processed = "truncated" -> SliceLast(beforeCursor, 800)
    [] OTHER -> beforeCursor

\* the values contextData takes
Contexts == [element : Elements \cup {"none"}, processed : {"raw", "summarized", "truncated"}]

\* contextData.beforeCursor (and contextData.text, which is the same string) of every
\* contextData, computed once
ContextTexts ==
  [ctx \in Contexts |-> ProcessedBeforeCursor(ctx.processed, ElementValue(ctx.element))]

ContextBefore(ctx) == ContextTexts[ctx]

\* contextData.recentText of every contextData, computed once: the slice is taken of
\* the text read from the element, before the summarization
ContextRecentTexts ==
  [ctx \in Contexts |-> SliceLast(ElementValue(ctx.element), RecentChars)]

\* the argument of languageDetector.detect() as it would be with contextData.text
DetectArgumentProcessedText(ctx) == ContextTexts[ctx]

\* generateCompletion: the argument of languageDetector.detect()
DetectArgument(ctx) == ContextRecentTexts[ctx]

English == << "e", "n" >>
French == << "f", "r" >>

\* the values detectedLanguage takes
Languages == {English, French}

\* buildCacheKey(contextData, language) of every contextData and language, computed
\* once
CacheKeys ==
  [ctx \in Contexts, language \in Languages |->
     BuildCacheKey(Site, ContextTexts[ctx], language)]

\* handleCompletionResponse as it would be if a completion of low confidence were
\* discarded
CompletionOutcomeDiscardingLowConfidence(response, completion) ==
  IF Trim(completion) = << >> \/ response.confidence < 30
  THEN [status |-> IF response.confidence < 30 THEN "not_suitable" ELSE "not_unique",
        completion |-> NullText]
  ELSE [status |-> "offered", completion |-> completion]

\* handleCompletionResponse: what it decides for the cleaned completion
CompletionOutcome(response, completion) ==
  IF Trim(completion) = << >>
  THEN [status |-> IF response.confidence < 30 THEN "not_suitable" ELSE "not_unique",
        completion |-> NullText]
  ELSE [status |-> IF response.confidence < 30 THEN "low_confidence" ELSE "offered",
        completion |-> completion]

\* handleCompletionResponse: what it decides, and the completion it then shows
ResponseOutcome(response, beforeCursor) ==
  IF response.kind = "malformed" THEN [status |-> "parse_error", completion |-> NullText]
  ELSE IF ~response.accept \/ response.sentences = << >>
  THEN [status |-> "not_suitable", completion |-> NullText]
  ELSE CompletionOutcome(response,
         CleanCompletionText(Trim(Join(response.sentences, << " " >>)), beforeCursor))

\* handleCompletionResponse: the ghost text for what was decided
ShowOutcome(t, o) ==
  CASE o.status = "parse_error" ->
         ShowGhostText(t, << "Failed to parse AI response" >>, NullText, "ready")
    [] o.status = "not_suitable" ->
         ShowGhostText(t, << "No suitable completion found" >>, NullText, "ready")
    [] o.status = "not_unique" ->
         ShowGhostText(t, << "No unique completion generated" >>, NullText, "ready")
    [] o.status = "low_confidence" ->
         ShowGhostText(t, << "Low confidence completion (press Tab to accept): " >>
                          \o o.completion, o.completion, "ready")
    [] o.status = "offered" ->
         ShowGhostText(t, o.completion, o.completion, "ready")

\* handleCompletionResponse(response, language, contextData)
HandleCompletionResponse(t, response, beforeCursor) ==
  ShowOutcome(t, ResponseOutcome(response, beforeCursor))

\* generateDemoSuggestion(context): null when no suggestion applies
GenerateDemoSuggestion(context) ==
  LET lowerContext == Trim(ToLowerCase(context))
      has(w) == Includes(lowerContext, w)
  IN  IF has(<<"h","e","l","l","o">>) \/ has(<<"h","i">>)
      THEN << "there! How can I help you today?" >>
      ELSE IF has(<<"t","h","a","n","k">>)
      THEN << "you for your time and consideration." >>
      ELSE IF has(<<"i"," ","a","m">>) \/ has(<<"i","'","m">>)
      THEN << "excited to share this project with you." >>
      ELSE IF has(<<"t","h","e"," ","p","r","o","j","e","c","t">>)
      THEN << "demonstrates on-device AI capabilities for text completion." >>
      ELSE IF has(<<"c","h","r","o","m","e"," ","e","x","t","e","n","s","i","o","n">>)
      THEN << "uses the Built-in AI APIs for privacy-first text completion." >>
      ELSE IF Len(lowerContext) > 10
      THEN << "and I believe this approach will improve user productivity significantly." >>
      ELSE NullText

\* getCurrentText: the 100 characters before the cursor
GetCurrentText(t) ==
  IF t.activeElement = "none" THEN << >>
  ELSE SliceLast(ElementValue(t.activeElement), 100)

\* showDemoGhostText, for the suggestion generated
ShowDemoSuggestion(t, demoSuggestions) ==
  IF demoSuggestions # NullText
  THEN ShowGhostText(t, demoSuggestions
                        \o << " (Demo mode - Chrome Built-in AI not available)" >>,
                     NullText, "ready")
  ELSE ShowGhostText(t, << "Chrome Built-in AI not available. See SETUP-CHROME-AI.md for setup instructions." >>,
                     NullText, "error")

\* showDemoGhostText
ShowDemoGhostText(t) == ShowDemoSuggestion(t, GenerateDemoSuggestion(GetCurrentText(t)))

\* showPlaceholderGhostText
ShowPlaceholderGhostText(t) ==
  IF t.isDownloading THEN ShowGhostText(t, << "Downloading model..." >>, NullText, "ready")
  ELSE IF t.isModelReady
  THEN ShowGhostText(t, << "AI autocomplete ready (functionality coming soon)" >>,
                     NullText, "ready")
  ELSE ShowDemoGhostText(t)

(***************************************************************************)
(* handleTrigger and what it awaits.  A handler runs without interruption  *)
(* up to its next await of the browser; each operator below is the code    *)
(* from one such await to the next, and yields the fields (t) and the      *)
(* invocation (p) it leaves.  An await of a value that is already there    *)
(* (createStreamingPrompt, extractWebsiteContext on a short page) does not *)
(* give way to an event and is passed through.                             *)
(***************************************************************************)

MaxChunks == 2

Left(t, p) == [t |-> t, p |-> p]

\* the invocation returns
Finish(p, status) == [p EXCEPT !.pc = "done", !.status = status]

\* the completion now offered by the ghost text as ready, if it is this one
Offered(t, completion) ==
  IF /\ t.ghostTextElement.exists
     /\ t.ghostTextElement.state = "ready"
     /\ t.ghostTextElement.textContent = completion
     /\ t.currentCompletion = completion
  THEN completion
  ELSE NullText

IsBlank(text) == \A i \in 1..Len(text) : text[i] \in WS

\* this.cache.set(key, value)
CacheSet(t, key, value) == [t EXCEPT !.cache = LRUSet(t.cache, key, value)]

\* generateCompletionStreaming: the call of promptStreaming, after showGhostText
PromptStreaming(t, p) ==
  Left(t, [p EXCEPT !.pc = "streaming",
                    !.signal = t.abortController, !.modelCalls = @ + 1])

\* generateCompletionStreaming up to the first read of the stream
GenerateCompletionStreaming(t, p) ==
  PromptStreaming(ShowGhostText(t, << "Generating..." >>, << >>, "streaming"), p)

\* generateCompletion: the cached completion has been shown
CacheHit(t, p, cached) ==
  Left(t, Finish([p EXCEPT !.offered = Offered(t, cached)], "cache_hit"))

\* generateCompletion from the result of cache.get to the call of the model
AfterCacheGet(t, p, cached) ==
  IF ~Falsy(cached)
  THEN CacheHit(ShowGhostText(t, cached, cached, "ready"), p, cached)
  ELSE IF t.languageModel # "none" /\ selfLanguageModel \in {"iterator", "callback"}
  THEN GenerateCompletionStreaming(t, p)
  ELSE Left(t, [p EXCEPT !.pc = "batch_wait",
                         !.signal = t.abortController, !.modelCalls = @ + 1])

\* generateCompletion: this.cache.get(cacheKey)
CacheGet(t, p) ==
  AfterCacheGet([t EXCEPT !.cache = LRUGet(t.cache, p.key)],
                [p EXCEPT !.hit = LRUGetValue(t.cache, p.key)],
                LRUGetValue(t.cache, p.key))

\* generateCompletion from the end of the language detection on
AfterDetect(t, p, detectedLanguage) ==
  CacheGet(t, [p EXCEPT !.key = CacheKeys[p.ctx, detectedLanguage],
                        !.language = detectedLanguage])

\* generateCompletion as it would be with the test !contextData.text in place of
\* !contextData.text.trim()
CheckContextWithoutTrim(t, p) ==
  IF ContextBefore(p.ctx) = << >>
  THEN Left(ShowGhostText(t, << "No context available for completion" >>, NullText, "error"),
            Finish(p, "no_context"))
  ELSE IF t.languageDetector /\ Len(ContextBefore(p.ctx)) >= 10
  THEN Left([t EXCEPT !.savedCursorPosition = GetCurrentCursorPosition(t)],
            [p EXCEPT !.pc = "detecting", !.detectCalls = @ + 1,
                      !.detectArg = DetectArgument(p.ctx)])
  ELSE AfterDetect([t EXCEPT !.savedCursorPosition = GetCurrentCursorPosition(t)],
                   p, English)

\* generateCompletion from the test of contextData.text to the language detection
CheckContext(t, p) ==
  IF Trim(ContextBefore(p.ctx)) = << >>
  THEN Left(ShowGhostText(t, << "No context available for completion" >>, NullText, "error"),
            Finish(p, "no_context"))
  ELSE IF t.languageDetector /\ Len(ContextBefore(p.ctx)) >= 10
  THEN Left([t EXCEPT !.savedCursorPosition = GetCurrentCursorPosition(t)],
            [p EXCEPT !.pc = "detecting", !.detectCalls = @ + 1,
                      !.detectArg = DetectArgument(p.ctx)])
  ELSE AfterDetect([t EXCEPT !.savedCursorPosition = GetCurrentCursorPosition(t)],
                   p, English)

\* generateCompletion from the return of extractContext on
AfterExtractContext(t, p, contextData) ==
  CheckContext(t, [p EXCEPT !.ctx = contextData,
                            !.blank = IsBlank(ContextBefore(contextData))])

\* extractContext up to the summarization of a long text
ExtractContext(t, p) ==
  IF Len(ElementValue(t.activeElement)) > SummarizeThreshold /\ t.summarizer
  THEN Left(t, [p EXCEPT !.pc = "summarizing",
                         !.ctx = [element |-> t.activeElement, processed |-> "raw"]])
  ELSE AfterExtractContext(t, p, [element |-> t.activeElement, processed |-> "raw"])

\* generateCompletion up to the first await; r names the AbortController it creates
GenerateCompletion(t, p, r) ==
  ExtractContext([ShowGhostText(t, << "Generating completion..." >>, NullText, "loading")
                    EXCEPT !.abortController = r, !.aborted = @ \ {r}], p)

\* handleTrigger once initializeModel has returned
AfterInitializeModel(t, p, r) ==
  IF t.isModelReady /\ t.languageModel # "none"
  THEN GenerateCompletion(t, p, r)
  ELSE Left(ShowPlaceholderGhostText(t),
            Finish(p, IF p.status = "init_failed" THEN "init_failed" ELSE "placeholder"))

\* handleTrigger after its call of clearGhostText, for an admitted trigger
AdmittedTrigger(t, p, r) ==
  IF ~t.isModelReady /\ ~t.isDownloading /\ selfLanguageModel # "absent"
  THEN Left(t, [p EXCEPT !.pc = "init_availability"])
  ELSE AfterInitializeModel(
         IF ~t.isModelReady /\ ~t.isDownloading
         THEN ShowGhostText(t, << "AI not available in this browser version" >>,
                            NullText, "ready")
         ELSE t, p, r)

\* the catch block of initializeModel as it would be without isDownloading = false
InitializeFailedStillDownloading(t) ==
  ShowGhostText(t, << "Failed to initialize AI model" >>, NullText, "ready")

\* initializeModel: the catch block
InitializeFailed(t) ==
  [ShowGhostText(t, << "Failed to initialize AI model" >>, NullText, "ready")
     EXCEPT !.isDownloading = FALSE]

\* generateCompletionStreaming: the finalization, for a finalText that is not empty
OfferFinalText(t, p, finalText) ==
  Left(t, Finish([p EXCEPT !.cacheWrites = @ + 1, !.offered = Offered(t, finalText)],
                 "offered"))

\* generateCompletionStreaming: the finalization, for the finalText computed
FinalizeText(t, p, finalText) ==
  IF finalText # << >>
  THEN OfferFinalText(
         CacheSet(SetGhostState([UpdateGhostText(t, finalText)
                                   EXCEPT !.currentCompletion = finalText], "ready"),
                  p.key, finalText),
         p, finalText)
  ELSE Left(SetGhostState(UpdateGhostText(t, << "No suitable completion found" >>), "error"),
            Finish(p, "not_suitable"))

\* generateCompletionStreaming: the finalization after the loop
FinalizeStreaming(t, p) ==
  FinalizeText(t, p, FinalStreamText(p.accumulated, ContextBefore(p.ctx),
                                     minSentences, maxSentences))

\* the positions of an invocation inside generateCompletion: a completion request
RequestPcs == {"summarizing", "detecting", "streaming", "batch_wait", "fallback_wait"}

\* the positions in which a call of the language model is outstanding
ModelCallPcs == {"streaming", "batch_wait", "fallback_wait"}

\* a listener calls clearGhostText while these completion requests are pending
MarkCancelled(ps) ==
  [r \in Requests |-> IF ps[r].pc \in RequestPcs THEN [ps[r] EXCEPT !.cancelled = TRUE]
                      ELSE ps[r]]

(***************************************************************************)
(* The actions: the event listeners and the continuations of the awaits    *)
(***************************************************************************)

pureVars == << lruVars, textVars, streamVars >>

restVars == << pureVars, policyVars, inserted >>

\* the record of the invocation p that returns and leaves the fields t
Returned(t, p) ==
  [ status |-> p.status, blank |-> p.blank, hit |-> p.hit, offered |-> p.offered,
    detectCalls |-> p.detectCalls, modelCalls |-> p.modelCalls,
    cacheWrites |-> p.cacheWrites, focused |-> t.activeElement # "none",
    stored |-> LRUGetValue(t.cache, p.key),
    keyIsLast |-> /\ t.cache.map # << >>
                  /\ t.cache.map[Len(t.cache.map)].key = p.key,
    response |-> p.response, shown |-> t.ghostTextElement,
    completion |-> t.currentCompletion, ctx |-> p.ctx,
    language |-> p.language, detection |-> p.detection ]

\* the invocation r is left as o.p, with the fields o.t, in the invocations ps
Proceed(ps, r, o) ==
  /\ Commit(o.t)
  /\ procs' = [ps EXCEPT ![r] = IF o.p.pc = "done" THEN IdleProc ELSE o.p]
  /\ returned' = IF o.p.pc = "done" THEN Returned(o.t, o.p) ELSE returned

\* the invocation r goes on to o.p and leaves the fields o.t
Continue(r, o) ==
  /\ Proceed(procs, r, o)
  /\ UNCHANGED << settingsVars, clock, triggerLog, restVars >>

\* performance.now() advances by d, up to limit
Tick(d, limit) ==
  /\ clock + d <= limit
  /\ clock' = clock + d
  /\ UNCHANGED << engineFields, procs, returned, triggerLog, settingsVars, restVars >>

\* focusin on a text input; the element that had the focus has lost it before
FocusIn(el) ==
  /\ activeElement = "none"
  /\ Commit([This EXCEPT !.activeElement = el])
  /\ UNCHANGED << procs, returned, triggerLog, clock, settingsVars, restVars >>

FocusInAny == \E el \in Elements : FocusIn(el)

\* focusout
FocusOut ==
  /\ activeElement # "none"
  /\ Commit([ClearGhostText(This) EXCEPT !.activeElement = "none"])
  /\ procs' = MarkCancelled(procs)
  /\ UNCHANGED << returned, triggerLog, clock, settingsVars, restVars >>

\* keydown Escape while there is ghost text
KeyEscape ==
  /\ ghostTextElement.exists
  /\ Commit(ClearGhostText(This))
  /\ procs' = MarkCancelled(procs)
  /\ UNCHANGED << returned, triggerLog, clock, settingsVars, restVars >>

\* keydown of a typing key (isTypingKey) while there is ghost text
KeyTyping ==
  /\ ghostTextElement.exists
  /\ Commit(ClearGhostText(This))
  /\ procs' = MarkCancelled(procs)
  /\ UNCHANGED << returned, triggerLog, clock, settingsVars, restVars >>

\* acceptGhostText: the text inserted at cursorPos into value for the completion
AcceptedText(value, cursorPos, completion) ==
  LET before   == SlicePrefix(value, cursorPos)
      prevChar == IF cursorPos > 0 THEN value[cursorPos] ELSE ""
      joined   == before \o completion
      n        == Len(joined)
  IN  IF \/ prevChar = " " /\ completion[1] \in WS
         \/ n >= 2 /\ joined[n] \in WS /\ joined[n - 1] \in WS
      THEN TrimStart(completion)
      ELSE completion

\* keydown of Tab while there is ghost text: acceptGhostText on a text input whose
\* cursor is at the end of its value
KeyTab ==
  /\ ghostTextElement.exists
  /\ IF activeElement = "none" \/ Falsy(currentCompletion)
     THEN UNCHANGED vars
     ELSE LET value     == ElementValue(activeElement)
              cursorPos == IF savedCursorPosition # -1 THEN savedCursorPosition
                           ELSE Len(value)
          IN  /\ inserted' = [text  |-> AcceptedText(value, cursorPos, currentCompletion),
                              at    |-> cursorPos,
                              state |-> ghostTextElement.state,
                              saved |-> savedCursorPosition]
              /\ Commit(ClearGhostText(This))
              /\ procs' = MarkCancelled(procs)
              /\ UNCHANGED << returned, triggerLog, clock, settingsVars, pureVars,
                              policyVars >>

\* the chrome.storage callback of loadSitePreference
SitePreferenceLoaded ==
  /\ sitePrefPending
  /\ sitePrefPending' = FALSE
  /\ siteEnabled' = sitePrefs
  /\ UNCHANGED << engineFields, procs, returned, triggerLog, clock, sitePrefs, minSentences,
                  maxSentences, selfLanguageModel, selfHelpers, restVars >>

\* the invocations whose record can be taken over: returned, and no pending call
\* holds the signal of their AbortController
FreeSlots ==
  {r \in Requests : /\ procs[r].pc = "idle"
                    /\ \A q \in Requests : procs[q].signal # r}

\* an eligible trigger as the history remembers it: its time, whether it was
\* admitted, and whether no trigger had been admitted in the interval before it
TriggerEntry(nowTs, admitted) ==
  [t |-> nowTs, admitted |-> admitted,
   quiet |-> \/ triggerLog.admitT = -1
             \/ nowTs - triggerLog.admitT >= MinTriggerIntervalMs]

\* the history after a trigger at nowTs
TriggerLogged(nowTs, eligible, admitted) ==
  IF ~triggerLog.on THEN triggerLog ELSE
  [ on       |-> TRUE,
    prev     |-> IF eligible THEN triggerLog.cur ELSE triggerLog.prev,
    cur      |-> IF eligible THEN TriggerEntry(nowTs, admitted) ELSE triggerLog.cur,
    admitT   |-> IF admitted THEN nowTs ELSE triggerLog.admitT,
    admitGap |-> IF admitted /\ triggerLog.admitT # -1 THEN nowTs - triggerLog.admitT
                 ELSE triggerLog.admitGap ]

\* handleTrigger, called by a trigger listener at nowTs, up to its first await; t has
\* the new _lastTriggerTs
HandleTriggerAt(nowTs, throttled, t) ==
  /\ triggerLog' = TriggerLogged(nowTs, activeElement # "none" /\ siteEnabled,
                                 ~throttled /\ activeElement # "none" /\ siteEnabled)
  /\ UNCHANGED << clock, settingsVars, pureVars, inserted >>
  /\ IF throttled
     THEN UNCHANGED << engineFields, procs, returned >>
     ELSE IF t.activeElement = "none"
     THEN Commit(t) /\ UNCHANGED << procs, returned >>
     ELSE IF ~siteEnabled
     THEN /\ Commit(ShowGhostText(t,
               << "Autocomplete is disabled on this site (Ctrl+Shift+S to enable)" >>,
               NullText, "error"))
          /\ UNCHANGED << procs, returned >>
     ELSE /\ FreeSlots # {}
          /\ \E r \in FreeSlots :
               /\ \A y \in FreeSlots : r <= y
               /\ Proceed(MarkCancelled(procs), r,
                          AdmittedTrigger(ClearGhostText(t), IdleProc, r))

HandleTrigger ==
  /\ UNCHANGED policyVars
  /\ HandleTriggerAt(clock, clock - lastTriggerTs < MinTriggerIntervalMs,
                     [This EXCEPT !.lastTriggerTs = clock])

Availabilities ==
  { [availability |-> "unavailable", userActivation |-> FALSE],
    [availability |-> "downloadable", userActivation |-> FALSE],
    [availability |-> "downloadable", userActivation |-> TRUE],
    [availability |-> "downloading", userActivation |-> FALSE],
    [availability |-> "available", userActivation |-> FALSE],
    [availability |-> "throws", userActivation |-> FALSE] }

\* initializeModel from the result of LanguageModel.availability() to its return or
\* to the call of LanguageModel.create()
AfterAvailability(t, a) ==
  CASE a.availability = "throws" -> InitializeFailed(t)
    [] a.availability = "unavailable" ->
         ShowGhostText(t, << "Built-in AI not supported. Need Chrome Canary >=128 with flags enabled." >>,
                       NullText, "ready")
    [] a.availability = "downloadable" /\ ~a.userActivation ->
         ShowGhostText(t, << "Click to download AI model (requires user interaction)" >>,
                       NullText, "ready")
    [] a.availability = "downloadable" /\ a.userActivation ->
         ShowGhostText([t EXCEPT !.isDownloading = TRUE],
                       << "Downloading AI model... (10-20+ minutes first time - please be patient!)" >>,
                       NullText, "ready")
    [] a.availability = "downloading" ->
         ShowGhostText([t EXCEPT !.isDownloading = TRUE],
                       << "AI model downloading... (can take 10-20+ minutes, please wait)" >>,
                       NullText, "ready")
    [] a.availability = "available" -> t

\* initializeModel goes on to LanguageModel.create()
Creates(a) ==
  \/ a.availability = "available"
  \/ a.availability = "downloadable" /\ a.userActivation

\* initializeModel: LanguageModel.availability() has settled
InitAvailabilityResolved(r, a) ==
  /\ procs[r].pc = "init_availability"
  /\ Continue(r,
       IF Creates(a)
       THEN Left(AfterAvailability(This, a),
                 [procs[r] EXCEPT !.pc = "init_create",
                                  !.monitor = a.availability = "downloadable"])
       ELSE AfterInitializeModel(AfterAvailability(This, a),
                                 IF a.availability = "throws"
                                 THEN [procs[r] EXCEPT !.status = "init_failed"]
                                 ELSE procs[r], r))

InitAvailabilityResolvedAny ==
  \E r \in Requests, a \in Availabilities : InitAvailabilityResolved(r, a)

\* initializeModel: the monitor passed to LanguageModel.create reports progress
InitDownloadProgress(r) ==
  /\ procs[r].pc = "init_create"
  /\ procs[r].monitor
  /\ Continue(r, Left(ShowGhostText(This, << "Downloading AI model... ", "50%" >>,
                                    NullText, "ready"),
                      procs[r]))

InitDownloadProgressAny == \E r \in Requests : InitDownloadProgress(r)

\* initializeModel: LanguageModel.create() has settled
InitCreateResolved(r, created) ==
  /\ procs[r].pc = "init_create"
  /\ Continue(r,
       IF created
       THEN Left([This EXCEPT !.languageModel = "session"],
                 [procs[r] EXCEPT !.pc = "init_summarizer", !.monitor = FALSE])
       ELSE AfterInitializeModel(InitializeFailed(This),
                                 [procs[r] EXCEPT !.monitor = FALSE,
                                                  !.status = "init_failed"], r))

InitCreateResolvedAny == \E r \in Requests, created \in BOOLEAN : InitCreateResolved(r, created)

\* initializeModel: 'Summarizer' in self has been tested and, where it holds,
\* Summarizer.availability() and Summarizer.create() have settled
InitSummarizerResolved(r) ==
  /\ procs[r].pc = "init_summarizer"
  /\ Continue(r, Left([This EXCEPT !.summarizer = @ \/ selfHelpers],
                      [procs[r] EXCEPT !.pc = "init_detector"]))

InitSummarizerResolvedAny == \E r \in Requests : InitSummarizerResolved(r)

\* initializeModel: 'LanguageDetector' in self has been tested and, where it holds,
\* LanguageDetector.availability() and LanguageDetector.create() have settled; the
\* model is ready and handleTrigger goes on
InitDetectorResolved(r) ==
  /\ procs[r].pc = "init_detector"
  /\ Continue(r,
       AfterInitializeModel(
         ShowGhostText([This EXCEPT !.languageDetector = @ \/ selfHelpers,
                                    !.isModelReady = TRUE, !.isDownloading = FALSE],
                       << "Full Chrome Built-in AI ready! LanguageModel + Summarizer + LanguageDetector working on ARM64!" >>,
                       NullText, "ready"),
         procs[r], r))

InitDetectorResolvedAny == \E r \in Requests : InitDetectorResolved(r)

\* extractContext: summarizer.summarize() has settled, with a summary or an error
SummarizeResolved(r, summarized) ==
  /\ procs[r].pc = "summarizing"
  /\ Continue(r, AfterExtractContext(This, procs[r],
                   [procs[r].ctx EXCEPT !.processed = IF summarized THEN "summarized"
                                                      ELSE "truncated"]))

SummarizeResolvedAny ==
  \E r \in Requests, summarized \in BOOLEAN : SummarizeResolved(r, summarized)

\* what languageDetector.detect() settles with; confidence in hundredths
Detections ==
  { [results |-> 1, detectedLanguage |-> French, confidence |-> 90],
    [results |-> 1, detectedLanguage |-> French, confidence |-> 50],
    [results |-> 1, detectedLanguage |-> French, confidence |-> 49],
    [results |-> 0, detectedLanguage |-> << >>, confidence |-> 0],
    [results |-> -1, detectedLanguage |-> << >>, confidence |-> 0] }

\* the continuation as it would be if the top result were taken whatever its
\* confidence
DetectResolvedIgnoringConfidence(r, d) ==
  /\ procs[r].pc = "detecting"
  /\ Continue(r, AfterDetect(This, [procs[r] EXCEPT !.detection = d],
                             IF d.results > 0 THEN d.detectedLanguage ELSE English))

\* generateCompletion: languageDetector.detect() has settled (results -1: it threw)
DetectResolved(r, d) ==
  /\ procs[r].pc = "detecting"
  /\ Continue(r, AfterDetect(This, [procs[r] EXCEPT !.detection = d],
                             IF d.results > 0 /\ d.confidence >= 50 THEN d.detectedLanguage
                             ELSE English))

DetectResolvedAny == \E r \in Requests, d \in Detections : DetectResolved(r, d)

Chunks == { << "O","k","."," ","S","o","."," " >> }

\* the loop body after cleanCompletionText: the ghost text follows the cleaned
\* buffer, at most once in 60 ms
ChunkShown(t, step) ==
  IF /\ step.consumed
     /\ Len(Trim(step.cleaned)) > 0
     /\ clock - t.lastStreamUpdateMs > 60
  THEN [UpdateGhostText(t, step.cleaned) EXCEPT !.lastStreamUpdateMs = clock]
  ELSE t

\* the loop body for one chunk; the break of the for-await loop leads to the
\* finalization at once
ChunkTaken(t, p, step) ==
  IF selfLanguageModel = "iterator" /\ step.earlyStop
  THEN FinalizeStreaming(t, [p EXCEPT !.accumulated = step.accumulated,
                                      !.earlyStop = TRUE, !.chunks = @ + 1])
  ELSE Left(t, [p EXCEPT !.accumulated = step.accumulated,
                         !.earlyStop = step.earlyStop, !.chunks = @ + 1])

\* the loop body for one chunk, from cleanCompletionText on
ChunkCleaned(t, p, step) == ChunkTaken(ChunkShown(t, step), p, step)

\* generateCompletionStreaming: the stream delivers a chunk
StreamChunk(r, chunk) ==
  /\ procs[r].pc = "streaming"
  /\ procs[r].chunks < MaxChunks
  /\ Continue(r,
       ChunkCleaned(This, procs[r],
                    StreamStep(procs[r].accumulated, procs[r].earlyStop, selfLanguageModel,
                               chunk, ContextBefore(procs[r].ctx), maxSentences)))

StreamChunkAny == \E r \in Requests, chunk \in Chunks : StreamChunk(r, chunk)

\* generateCompletionStreaming: the stream has ended
StreamEnd(r) ==
  /\ procs[r].pc = "streaming"
  /\ Continue(r, FinalizeStreaming(This, procs[r]))

StreamEndAny == \E r \in Requests : StreamEnd(r)

\* generateCompletionStreaming: the stream fails; an AbortError takes the code to the
\* finalization, another error to the batch fallback
StreamError(r) ==
  /\ procs[r].pc = "streaming"
  /\ Continue(r,
       IF procs[r].signal # 0 /\ procs[r].signal \in aborted
       THEN FinalizeStreaming(This, procs[r])
       ELSE Left(This, [procs[r] EXCEPT !.pc = "fallback_wait",
                                        !.signal = abortController, !.modelCalls = @ + 1]))

StreamErrorAny == \E r \in Requests : StreamError(r)

Sentence == << "O","k","." >>

\* the sentence of the one response of low confidence that is offered: no other
\* response yields this completion
Guess == << "E","h","." >>

\* a sentence that repeats the end of the text before the cursor
Echo == << "h","o","w" >>

\* an item of response.sentences that holds two sentences
TwoSentences == << "O","k","."," ","S","o","." >>

\* what languageModel.prompt() settles with; confidence in hundredths
Responses ==
  { [kind |-> "object", accept |-> TRUE, confidence |-> 90, sentences |-> << Sentence >>],
    [kind |-> "object", accept |-> TRUE, confidence |-> 20, sentences |-> << Guess >>],
    [kind |-> "object", accept |-> TRUE, confidence |-> 20, sentences |-> << Echo >>],
    [kind |-> "object", accept |-> TRUE, confidence |-> 90,
     sentences |-> << TwoSentences, TwoSentences >>],
    [kind |-> "object", accept |-> FALSE, confidence |-> 90, sentences |-> << >>],
    [kind |-> "object", accept |-> FALSE, confidence |-> 90, sentences |-> << Sentence >>],
    [kind |-> "string", accept |-> TRUE, confidence |-> 90, sentences |-> << Sentence >>],
    [kind |-> "malformed", accept |-> FALSE, confidence |-> 0, sentences |-> << >>],
    [kind |-> "error", accept |-> FALSE, confidence |-> 0, sentences |-> << >>] }

\* generateCompletion: the completion cached for a response of the batch path, none
\* when response.sentences is missing or empty; a response delivered as a string has
\* no property sentences
PositiveCompletion(p, response) ==
  IF p.pc = "batch_wait" /\ response.kind = "object" /\ Len(response.sentences) > 0
  THEN CleanCompletionText(Trim(Join(response.sentences, << " " >>)), ContextBefore(p.ctx))
  ELSE << >>

\* generateCompletion: "Cache positive results", for the completion to cache
CachePositive(t, p, completion) ==
  IF completion # << >>
  THEN Left(CacheSet(t, p.key, completion), [p EXCEPT !.cacheWrites = @ + 1])
  ELSE Left(t, p)

\* the invocation returns from generateCompletion after handleCompletionResponse
Responded(c, o) ==
  Left(c.t, Finish([c.p EXCEPT !.offered = IF o.completion = NullText THEN NullText
                                           ELSE Offered(c.t, o.completion)],
                   o.status))

\* generateCompletion and the fallback of generateCompletionStreaming from the
\* response of languageModel.prompt() on
AfterResponse(t, p, response, o) ==
  Responded(CachePositive(ShowOutcome(t, o), p, PositiveCompletion(p, response)), o)

\* the continuation of languageModel.prompt() as it would be if an error of the
\* provider were swallowed like an AbortError
PromptResolvedSwallowingErrors(r, response) ==
  /\ procs[r].pc \in {"batch_wait", "fallback_wait"}
  /\ Continue(r,
       IF procs[r].signal # 0 /\ procs[r].signal \in aborted
       THEN Left(This, Finish(procs[r], "cancelled"))
       ELSE IF response.kind = "error"
       THEN Left(This, Finish(procs[r], "failed"))
       ELSE AfterResponse(This, [procs[r] EXCEPT !.response = response], response,
                          ResponseOutcome(response, ContextBefore(procs[r].ctx))))

\* languageModel.prompt() has settled, on the batch path or in the fallback of the
\* streaming path: with an AbortError if its signal is aborted, else with a response
\* or another error
PromptResolved(r, response) ==
  /\ procs[r].pc \in {"batch_wait", "fallback_wait"}
  /\ Continue(r,
       IF procs[r].signal # 0 /\ procs[r].signal \in aborted
       THEN Left(This, Finish(procs[r], "cancelled"))
       ELSE IF response.kind = "error"
       THEN Left(ShowGhostText(This, << "Completion failed: ", "model error" >>,
                               NullText, "error"),
                 Finish(procs[r], "failed"))
       ELSE AfterResponse(This, [procs[r] EXCEPT !.response = response], response,
                          ResponseOutcome(response, ContextBefore(procs[r].ctx))))

PromptResolvedAny == \E r \in Requests, response \in Responses : PromptResolved(r, response)

(***************************************************************************)
(* The engine from its construction, in any browser and with any outcome   *)
(* of the initialization, for as many triggers as MaxTicks intervals admit *)
(***************************************************************************)

MaxTicks == 1

\* the browsers: the LanguageModel API and whether the helper APIs exist
Browsers ==
  { [LanguageModel |-> "absent", helpers |-> FALSE],
    [LanguageModel |-> "iterator", helpers |-> TRUE],
    [LanguageModel |-> "callback", helpers |-> TRUE],
    [LanguageModel |-> "batch", helpers |-> TRUE],
    [LanguageModel |-> "batch", helpers |-> FALSE] }

BrowserStart ==
  \E b \in Browsers : selfLanguageModel = b.LanguageModel /\ selfHelpers = b.helpers

TickInterval == Tick(MinTriggerIntervalMs, MaxTicks * MinTriggerIntervalMs)

Init == EngineInit /\ BrowserStart /\ LruInit /\ TextIdle /\ StreamIdle

Next ==
  \/ TickInterval
  \/ FocusInAny
  \/ FocusOut
  \/ KeyEscape
  \/ KeyTyping
  \/ HandleTrigger
  \/ InitAvailabilityResolvedAny
  \/ InitDownloadProgressAny
  \/ InitCreateResolvedAny
  \/ InitSummarizerResolvedAny
  \/ InitDetectorResolvedAny
  \/ SummarizeResolvedAny
  \/ DetectResolvedAny
  \/ StreamChunkAny
  \/ StreamEndAny
  \/ StreamErrorAny
  \/ PromptResolvedAny

Spec == Init /\ [][Next]_vars

(***************************************************************************)
(* A session on one text input in a browser whose model is available: the  *)
(* triggers of MaxSessionTicks intervals                                   *)
(***************************************************************************)

MaxSessionTicks == 2

SessionBrowsers ==
  { [LanguageModel |-> "iterator", helpers |-> TRUE],
    [LanguageModel |-> "callback", helpers |-> TRUE],
    [LanguageModel |-> "batch", helpers |-> TRUE] }

SessionStart ==
  \E b \in SessionBrowsers : selfLanguageModel = b.LanguageModel /\ selfHelpers = b.helpers

TickSession == Tick(MinTriggerIntervalMs, MaxSessionTicks * MinTriggerIntervalMs)

FocusInNote == FocusIn("note")

InitAvailable ==
  \E r \in Requests :
    InitAvailabilityResolved(r, [availability |-> "available", userActivation |-> FALSE])

InitCreated == \E r \in Requests : InitCreateResolved(r, TRUE)

\* what languageDetector.detect() settles with in the sessions: a result taken and a
\* failure, the two outcomes that decide the language of the request
SessionDetections == {d \in Detections : d.confidence = 90 \/ d.results = -1}

DetectResolvedSession ==
  \E r \in Requests, d \in SessionDetections : DetectResolved(r, d)

InitSession == EngineInit /\ SessionStart /\ LruInit /\ TextIdle /\ StreamIdle

SessionNext ==
  \/ TickSession
  \/ FocusInNote
  \/ FocusOut
  \/ KeyEscape
  \/ KeyTyping
  \/ HandleTrigger
  \/ InitAvailable
  \/ InitCreated
  \/ InitSummarizerResolvedAny
  \/ InitDetectorResolvedAny
  \/ DetectResolvedSession
  \/ StreamChunkAny
  \/ StreamEndAny
  \/ StreamErrorAny
  \/ PromptResolvedAny

SpecSession == InitSession /\ [][SessionNext]_vars

(***************************************************************************)
(* The throttle of handleTrigger alone: triggers at any multiple of 100 ms *)
(* in a browser without the LanguageModel API, where every admitted        *)
(* trigger returns before the next event                                   *)
(***************************************************************************)

MaxFineTicks == 11

TickFine == Tick(100, MaxFineTicks * 100)

TriggerStart ==
  /\ selfLanguageModel = "absent"
  /\ selfHelpers = FALSE
  /\ triggerLog = [NoTriggerLog EXCEPT !.on = TRUE]
  /\ sitePrefs \in BOOLEAN

InitTrigger == EngineStart /\ TriggerStart /\ LruInit /\ TextIdle /\ StreamIdle

TriggerNext ==
  \/ TickFine
  \/ FocusInNote
  \/ FocusOut
  \/ SitePreferenceLoaded
  \/ HandleTrigger

SpecTrigger == InitTrigger /\ [][TriggerNext]_vars

(***************************************************************************)
(* The cache over a longer session: the triggers of MaxCacheTicks          *)
(* intervals on one text input, in a browser whose model is available and  *)
(* has no promptStreaming                                                  *)
(***************************************************************************)

MaxCacheTicks == 3

CacheStart == selfLanguageModel = "batch" /\ selfHelpers = TRUE

TickCache == Tick(MinTriggerIntervalMs, MaxCacheTicks * MinTriggerIntervalMs)

InitCache == EngineInit /\ CacheStart /\ LruInit /\ TextIdle /\ StreamIdle

CacheNext ==
  \/ TickCache
  \/ FocusInNote
  \/ FocusOut
  \/ KeyEscape
  \/ KeyTyping
  \/ HandleTrigger
  \/ InitAvailable
  \/ InitCreated
  \/ InitSummarizerResolvedAny
  \/ InitDetectorResolvedAny
  \/ DetectResolvedSession
  \/ PromptResolvedAny

SpecCache == InitCache /\ [][CacheNext]_vars

(***************************************************************************)
(* removeContextOverlap and cleanCompletionText on their own: the text     *)
(* before the cursor and the completion are any short texts, or the        *)
(* example of the echoed prefix                                            *)
(***************************************************************************)

MaxContextLen == 2
MaxCompletionLen == 4

CleanAlphabet == {"a", "b", " ", "."}

\* the texts of at most n characters
TextsUpTo(n) == UNION {[1..k -> CleanAlphabet] : k \in 0..n}

\* 'Hello, my name is John and I'
EchoedBefore ==
  << "H","e","l","l","o",","," ","m","y"," ","n","a","m","e"," ","i","s"," ",
     "J","o","h","n"," ","a","n","d"," ","I" >>

\* ' work as an engineer.'
EchoedRest ==
  << " ","w","o","r","k"," ","a","s"," ","a","n"," ","e","n","g","i","n","e","e","r","." >>

\* completions for stripCursorArtifacts: ' It can occur.', 'Cursor', '[CURSOR] ok',
\* ' so be it '
StripInputs ==
  { << " ","I","t"," ","c","a","n"," ","o","c","c","u","r","." >>,
    << "C","u","r","s","o","r" >>,
    << "[","C","U","R","S","O","R","]"," ","o","k" >>,
    << " ","s","o"," ","b","e"," ","i","t"," " >> }

CleanInputs ==
  [before : TextsUpTo(MaxContextLen), completion : TextsUpTo(MaxCompletionLen)]
    \cup {[before |-> EchoedBefore, completion |-> EchoedBefore \o EchoedRest]}
    \cup [before : {<< >>}, completion : StripInputs]

CleanStart ==
  /\ txIn \in CleanInputs
  /\ txOut = [phase |-> "idle", out |-> << >>, prev |-> << >>]

\* removeContextOverlap(beforeCursor, completion)
ApplyRemoveContextOverlap ==
  /\ txOut.phase = "idle"
  /\ txOut' = [phase |-> "removed", prev |-> txIn.completion,
               out |-> RemoveContextOverlap(txIn.before, txIn.completion)]
  /\ UNCHANGED << txIn, engineVars, lruVars, streamVars >>

\* removeContextOverlap again, on the same context and the completion it returned
ApplyRemoveContextOverlapAgain ==
  /\ txOut.phase = "removed"
  /\ txOut' = [phase |-> "removed_again", prev |-> txOut.out,
               out |-> RemoveContextOverlap(txIn.before, txOut.out)]
  /\ UNCHANGED << txIn, engineVars, lruVars, streamVars >>

\* cleanCompletionText(completion, contextData), on sentences.join(' ').trim()
ApplyCleanCompletionText ==
  /\ txOut.phase = "idle"
  /\ txOut' = [phase |-> "cleaned", prev |-> txIn.completion,
               out |-> CleanCompletionText(Trim(txIn.completion), txIn.before)]
  /\ UNCHANGED << txIn, engineVars, lruVars, streamVars >>

\* stripCursorArtifacts(completion)
ApplyStripCursorArtifacts ==
  /\ txOut.phase = "idle"
  /\ txOut' = [phase |-> "stripped", prev |-> txIn.completion,
               out |-> StripCursorArtifacts(txIn.completion)]
  /\ UNCHANGED << txIn, engineVars, lruVars, streamVars >>

InitClean == EngineInit /\ EngineIdle /\ LruInit /\ CleanStart /\ StreamIdle

CleanNext ==
  \/ ApplyRemoveContextOverlap
  \/ ApplyRemoveContextOverlapAgain
  \/ ApplyCleanCompletionText
  \/ ApplyStripCursorArtifacts

SpecClean == InitClean /\ [][CleanNext]_vars

(***************************************************************************)
(* buildCacheKey on its own: two calls, each on any contextData of a small *)
(* set, on any of two sites and with any of two languages                  *)
(***************************************************************************)

\* a text of RecentChars characters
RecentText == [i \in 1..RecentChars |-> IF i % 5 = 0 THEN " " ELSE "a"]

\* contextData.beforeCursor: texts longer than RecentChars that end alike, the text
\* they end with, and short texts
KeyTexts ==
  { << "x" >> \o RecentText, << "y", "y" >> \o RecentText, RecentText,
    << >>, << "a" >>, << "A", "a" >>, << "B", "B" >> }

\* location.hostname
KeySites == { Site, << "e","x",".","i","n" >> }

\* contextData.afterCursor
KeyAfterTexts == { << >>, << "z" >> }

KeyCalls ==
  [site : KeySites, beforeCursor : KeyTexts, afterCursor : KeyAfterTexts,
   language : Languages]

KeyStart ==
  /\ txIn \in [first : KeyCalls, second : KeyCalls]
  /\ txOut = [phase |-> "idle", first |-> NoKey, second |-> NoKey]

\* buildCacheKey(contextData, language), the first call
ApplyBuildCacheKey ==
  /\ txOut.phase = "idle"
  /\ txOut' = [txOut EXCEPT !.phase = "first",
                            !.first = BuildCacheKey(txIn.first.site,
                                                    txIn.first.beforeCursor,
                                                    txIn.first.language)]
  /\ UNCHANGED << txIn, engineVars, lruVars, streamVars >>

\* buildCacheKey(contextData, language), the second call
ApplyBuildCacheKeyAgain ==
  /\ txOut.phase = "first"
  /\ txOut' = [txOut EXCEPT !.phase = "both",
                            !.second = BuildCacheKey(txIn.second.site,
                                                     txIn.second.beforeCursor,
                                                     txIn.second.language)]
  /\ UNCHANGED << txIn, engineVars, lruVars, streamVars >>

InitKey == EngineInit /\ EngineIdle /\ LruInit /\ KeyStart /\ StreamIdle

KeyNext == ApplyBuildCacheKey \/ ApplyBuildCacheKeyAgain

SpecKey == InitKey /\ [][KeyNext]_vars

(***************************************************************************)
(* Recovery: two trigger intervals on one text input in a browser without  *)
(* the helper APIs, with any outcome of the initialization and of the      *)
(* calls of the model                                                      *)
(***************************************************************************)

MaxRecoveryTicks == 3

RecoveryBrowsers ==
  { [LanguageModel |-> "iterator", helpers |-> FALSE],
    [LanguageModel |-> "batch", helpers |-> FALSE] }

RecoveryStart ==
  \E b \in RecoveryBrowsers : selfLanguageModel = b.LanguageModel /\ selfHelpers = b.helpers

TickRecovery == Tick(MinTriggerIntervalMs, MaxRecoveryTicks * MinTriggerIntervalMs)

InitRecovery == EngineInit /\ RecoveryStart /\ LruInit /\ TextIdle /\ StreamIdle

RecoveryNext ==
  \/ TickRecovery
  \/ FocusInNote
  \/ FocusOut
  \/ KeyEscape
  \/ HandleTrigger
  \/ InitAvailabilityResolvedAny
  \/ InitDownloadProgressAny
  \/ InitCreateResolvedAny
  \/ InitSummarizerResolvedAny
  \/ InitDetectorResolvedAny
  \/ StreamChunkAny
  \/ StreamEndAny
  \/ StreamErrorAny
  \/ PromptResolvedAny

SpecRecovery == InitRecovery /\ [][RecoveryNext]_vars


(***************************************************************************)
(* The site preference: the triggers of MaxSiteTicks intervals in a        *)
(* browser whose model is available, on a host whose stored preference is  *)
(* enabled or disabled, with the callback of loadSitePreference running at *)
(* any time after the construction                                         *)
(***************************************************************************)

MaxSiteTicks == 2

SiteStart ==
  /\ selfLanguageModel = "batch"
  /\ selfHelpers = FALSE
  /\ triggerLog = NoTriggerLog
  /\ sitePrefs \in BOOLEAN

TickSite == Tick(MinTriggerIntervalMs, MaxSiteTicks * MinTriggerIntervalMs)

InitSite == EngineStart /\ SiteStart /\ LruInit /\ TextIdle /\ StreamIdle

SiteNext ==
  \/ TickSite
  \/ FocusInNote
  \/ FocusOut
  \/ KeyEscape
  \/ SitePreferenceLoaded
  \/ HandleTrigger
  \/ InitAvailable
  \/ InitCreated
  \/ InitSummarizerResolvedAny
  \/ InitDetectorResolvedAny
  \/ PromptResolvedAny

SpecSite == InitSite /\ [][SiteNext]_vars

(***************************************************************************)
(* The trigger policy: the keyboard, input and timer listeners that call   *)
(* handleTrigger, and the settings that enable them                        *)
(***************************************************************************)

\* a field the settings object does not have
Undefined == -1

\* Math.min(hi, Math.max(lo, n))
Clamp(lo, hi, n) == Min2(hi, Max2(lo, n))

\* updateSettingsFromObject
UpdateSettingsFromObject(s) ==
  /\ triggers' = [ctrlEnter |-> s.ctrlEnter, doubleSpace |-> s.doubleSpace,
                  autoAfterPunctuation |-> s.autoAfterPunctuation]
  /\ Commit(IF s.cacheSize # Undefined /\ s.cacheSize > 10 /\ s.cacheSize <= 500
            THEN [This EXCEPT !.cache = NewLRUCache(s.cacheSize)]
            ELSE This)
  /\ minSentences' = IF s.minSentences # Undefined THEN Clamp(1, 3, s.minSentences)
                     ELSE minSentences
  /\ maxSentences' = IF s.maxSentences # Undefined THEN Clamp(1, 6, s.maxSentences)
                     ELSE maxSentences
  /\ UNCHANGED << procs, returned, triggerLog, clock, siteEnabled, sitePrefPending,
                  sitePrefs, selfLanguageModel, selfHelpers, lastSpaceTimeMs,
                  punctuationTimer, raised, spaceLog, pureVars, inserted >>

\* a listener calls handleTrigger
ListenerTrigger(by) ==
  /\ raised' = [by |-> by, triggers |-> triggers, at |-> clock]
  /\ triggers' = triggers
  /\ HandleTriggerAt(clock, clock - lastTriggerTs < MinTriggerIntervalMs,
                     [This EXCEPT !.lastTriggerTs = clock])

\* keydown of Ctrl+Shift+Space
KeydownCtrlShiftSpace ==
  /\ ListenerTrigger("manual")
  /\ UNCHANGED << lastSpaceTimeMs, punctuationTimer, spaceLog >>

\* keydown of Ctrl+Enter
KeydownCtrlEnter ==
  IF triggers.ctrlEnter
  THEN /\ ListenerTrigger("ctrlEnter")
       /\ UNCHANGED << lastSpaceTimeMs, punctuationTimer, spaceLog >>
  ELSE UNCHANGED vars

\* the keyup listener: _lastSpaceTimeMs after a release that completes a pair
SpaceTimeAfterPair(now) == 0

\* the keyup of Space at the time now is logged; called tells whether the listener
\* called handleTrigger
SpaceLogged(log, now, called) ==
  [at |-> now, called |-> called, prev |-> log.at, prevCalled |-> log.called]

\* keyup of Space without a modifier
KeyupSpace ==
  IF ~triggers.doubleSpace
  THEN UNCHANGED vars
  ELSE IF clock - lastSpaceTimeMs < 350
  THEN /\ ListenerTrigger("doubleSpace")
       /\ lastSpaceTimeMs' = SpaceTimeAfterPair(clock)
       /\ spaceLog' = SpaceLogged(spaceLog, clock, TRUE)
       /\ UNCHANGED punctuationTimer
  ELSE /\ lastSpaceTimeMs' = clock
       /\ spaceLog' = SpaceLogged(spaceLog, clock, FALSE)
       /\ UNCHANGED << engineFields, procs, returned, triggerLog, clock, settingsVars,
                       triggers, punctuationTimer, raised, pureVars, inserted >>

\* /[.!?][\)\]]?\s?$/.test(text)
EndsWithPunct(text) ==
  LET n     == Len(text)
      sp    == IF n >= 1 /\ text[n] \in WS THEN 1 ELSE 0
      close(k) == IF n - k >= 1 /\ text[n - k] \in {")", "]"} THEN 1 ELSE 0
      at(k) == n - k >= 1 /\ text[n - k] \in {".", "!", "?"}
  IN  \/ at(0)
      \/ at(close(0))
      \/ at(sp)
      \/ at(sp + close(sp))

\* the texts getCurrentText returns to the input listener
InputTexts ==
  { << >>, << "H","i" >>, << "H","i","." >>, << "H","i","!"," " >>,
    << "(","H","i","?",")" >>, << "H","i","."," "," " >>, << "H","i",".",")",")" >> }

\* the input listener, for the text the element has after the input
InputEvent(text) ==
  /\ triggers.autoAfterPunctuation
  /\ activeElement # "none"
  /\ text # << >>
  /\ punctuationTimer' = IF EndsWithPunct(text) THEN clock + 350 ELSE -1
  /\ UNCHANGED << engineFields, procs, returned, triggerLog, clock, settingsVars,
                  triggers, lastSpaceTimeMs, raised, spaceLog, pureVars, inserted >>

InputEventAny == \E text \in InputTexts : InputEvent(text)

\* the timeout set by the input listener expires
PunctuationTimerFires ==
  /\ punctuationTimer # -1
  /\ clock >= punctuationTimer
  /\ punctuationTimer' = -1
  /\ ListenerTrigger("autoAfterPunctuation")
  /\ UNCHANGED << lastSpaceTimeMs, spaceLog >>

MaxPolicyTicks == 4

\* the settings the options page saves, with the cache size left out
PolicySettings ==
  [ctrlEnter : BOOLEAN, doubleSpace : BOOLEAN, autoAfterPunctuation : BOOLEAN,
   cacheSize : {Undefined}, minSentences : {Undefined}, maxSentences : {Undefined}]

UpdatePolicySettings == \E s \in PolicySettings : UpdateSettingsFromObject(s)

TickPolicy == Tick(175, MaxPolicyTicks * 175)

PolicyStart ==
  /\ selfLanguageModel = "absent"
  /\ selfHelpers = FALSE

InitPolicy == EngineInit /\ PolicyStart /\ LruInit /\ TextIdle /\ StreamIdle

PolicyNext ==
  \/ TickPolicy
  \/ FocusInNote
  \/ UpdatePolicySettings
  \/ KeydownCtrlShiftSpace
  \/ KeydownCtrlEnter
  \/ KeyupSpace
  \/ InputEventAny
  \/ PunctuationTimerFires

SpecPolicy == InitPolicy /\ [][PolicyNext]_vars

(***************************************************************************)
(* The settings and the cache: the triggers of MaxSettingsTicks intervals  *)
(* on one text input, in a browser whose model is available, with settings *)
(* changes that carry a cache size arriving at any time                    *)
(***************************************************************************)

MaxSettingsTicks == 2

\* the cache sizes of the settings changes: the least and the greatest the options
\* page stores, one between them, and none
CacheSizes == {Undefined, 10, 11, 500}

CacheSettings ==
  [ctrlEnter : {FALSE}, doubleSpace : {FALSE}, autoAfterPunctuation : BOOLEAN,
   cacheSize : CacheSizes, minSentences : {Undefined}, maxSentences : {Undefined}]

UpdateCacheSettings == \E s \in CacheSettings : UpdateSettingsFromObject(s)

\* the settings changes that carry the sentence range: the ends of the ranges the
\* options page stores, and a number beyond each end
SentenceSettings ==
  [ctrlEnter : {FALSE}, doubleSpace : {FALSE}, autoAfterPunctuation : {FALSE},
   cacheSize : {Undefined}, minSentences : {Undefined, 0, 1, 3, 4},
   maxSentences : {Undefined, 0, 1, 6, 7}]

UpdateSentenceSettings == \E s \in SentenceSettings : UpdateSettingsFromObject(s)

TickSettings == Tick(MinTriggerIntervalMs, MaxSettingsTicks * MinTriggerIntervalMs)

SettingsStart == selfLanguageModel = "batch" /\ selfHelpers = FALSE

InitSettings == EngineInit /\ SettingsStart /\ LruInit /\ TextIdle /\ StreamIdle

SettingsNext ==
  \/ TickSettings
  \/ FocusInNote
  \/ UpdateCacheSettings
  \/ UpdateSentenceSettings
  \/ HandleTrigger
  \/ InitAvailable
  \/ InitCreated
  \/ InitSummarizerResolvedAny
  \/ InitDetectorResolvedAny
  \/ PromptResolvedAny

SpecSettings == InitSettings /\ [][SettingsNext]_vars

(***************************************************************************)
(* The acceptance of the ghost text: the triggers of MaxAcceptTicks         *)
(* intervals on one text input up to the first Tab that inserts a text, in *)
(* a browser whose model is available                                      *)
(***************************************************************************)

MaxAcceptTicks == 2

TickAccept == Tick(MinTriggerIntervalMs, MaxAcceptTicks * MinTriggerIntervalMs)

\* the text input still has the value ElementValue gives it
TriggerBeforeAccept == inserted = NoInsert /\ HandleTrigger

AcceptStart == selfLanguageModel = "batch" /\ selfHelpers = FALSE

InitAccept == EngineInit /\ AcceptStart /\ LruInit /\ TextIdle /\ StreamIdle

AcceptNext ==
  \/ TickAccept
  \/ FocusInNote
  \/ KeyTab
  \/ TriggerBeforeAccept
  \/ InitAvailable
  \/ InitCreated
  \/ InitSummarizerResolvedAny
  \/ InitDetectorResolvedAny
  \/ PromptResolvedAny

SpecAccept == InitAccept /\ [][AcceptNext]_vars
(***************************************************************************)
(* The claims about the engine                                             *)
(***************************************************************************)

\* C1: at most one completion request is in flight at any time: two requests never
\* both have an outstanding call of the language model that the provider has not
\* been asked to stop
C1_AtMostOneRequestInFlight ==
  \A r, q \in Requests :
    ( /\ procs[r].pc \in ModelCallPcs
      /\ ~(procs[r].signal # 0 /\ procs[r].signal \in aborted)
      /\ procs[q].pc \in ModelCallPcs
      /\ ~(procs[q].signal # 0 /\ procs[q].signal \in aborted) ) => r = q

\* C2: a request that has been cancelled (by Escape, typing, focus loss or a newer
\* trigger) never afterwards changes the ghost text, the current completion or the
\* cache: no step that such a request takes changes one of them
C2_CancelledRequestChangesNothing ==
  [][\A r \in Requests :
       (procs[r].cancelled /\ procs'[r] # procs[r])
         => UNCHANGED << ghostTextElement, currentCompletion, cache >>]_vars

\* C3: cancelling the active request (Escape, typing, focus loss or a new trigger)
\* asks the provider to stop: the step that cancels a request whose call of the
\* language model is outstanding aborts the signal that was passed to that call, on
\* the streaming path as well as on the batch path
C3_CancelAbortsPassedSignal ==
  [][\A r \in Requests :
       (procs[r].pc \in ModelCallPcs /\ ~procs[r].cancelled /\ procs'[r].cancelled)
         => (procs[r].signal # 0 /\ procs[r].signal \in aborted')]_vars

\* C4: two triggers are never both admitted less than minTriggerIntervalMs apart,
\* and of two eligible triggers (a text input has the focus and the site is
\* enabled) fired 100 ms apart, the first one MinTriggerIntervalMs or more after the
\* page was loaded and after the last admitted trigger, exactly one is admitted
C4_ThrottleAdmitsExactlyOne ==
  /\ triggerLog.admitGap = -1 \/ triggerLog.admitGap >= MinTriggerIntervalMs
  /\ ( /\ triggerLog.prev.t >= MinTriggerIntervalMs
       /\ triggerLog.cur.t - triggerLog.prev.t = 100
       /\ triggerLog.prev.quiet )
       => triggerLog.prev.admitted # triggerLog.cur.admitted

\* C6: when the before-cursor text of the context is empty or consists of whitespace
\* only, the request ends with the status 'no context' and has made no call of the
\* language detector or of the language model and no write to the cache
C6_BlankContextEndsWithNoContext ==
  /\ \A r \in Requests : ~procs[r].blank
  /\ returned.blank =>
       /\ returned.status = "no_context"
       /\ returned.detectCalls = 0
       /\ returned.modelCalls = 0
       /\ returned.cacheWrites = 0

\* a request on a blank text has returned, and the cache is as it was created
C6_Witness ==
  /\ returned.blank
  /\ returned.status = "no_context"
  /\ isModelReady
  /\ cache = NewLRUCache(DefaultCacheCapacity)

\* C7: if the cache holds an entry for the key computed for the request, the request
\* returns at once as a cache hit without a call of the language model, the entry is
\* then the most recently used one of the cache, and the ghost text offers it as
\* ready when a text input has the focus to show it on
C7_CacheHitIsOfferedWithoutModelCall ==
  /\ \A r \in Requests : procs[r].hit = NullText
  /\ returned.hit # NullText =>
       /\ returned.status = "cache_hit"
       /\ returned.modelCalls = 0
       /\ returned.keyIsLast
       /\ returned.focused => returned.offered = returned.hit

\* a request has returned with the entry of its key, found in a cache of two entries
C7_Witness ==
  /\ returned.status = "cache_hit"
  /\ returned.offered = returned.hit
  /\ returned.hit # NullText
  /\ Len(cache.map) = 2

\* C8: whenever a request ends by offering a completion obtained from the model
\* (streaming path, batch path or batch fallback; response delivered as an object or
\* as a JSON string), the text offered is then stored in the cache under the key
\* computed for the request
C8_OfferedCompletionIsCached ==
  (returned.status = "offered" /\ returned.hit = NullText /\ returned.offered # NullText)
    => returned.stored = returned.offered

C12_OverlapRemovalIsIdempotent ==
  txOut.phase = "removed_again" => txOut.out = txOut.prev

\* C13: for the text 'Hello, my name is John and I' before the cursor and the
\* sentence 'Hello, my name is John and I work as an engineer.', the cleaned output
\* is ' work as an engineer.', the leading space included
C13_EchoedPrefixLeavesRemainder ==
  ( /\ txOut.phase = "cleaned"
    /\ txIn.before = EchoedBefore
    /\ txIn.completion = EchoedBefore \o EchoedRest )
  => txOut.out = EchoedRest

\* C14: buildCacheKey is a function of the site, the last 200 characters of
\* beforeCursor and the language only: two calls that agree on the three return the
\* same key, whatever the text after the cursor and the text more than 200
\* characters before it
C14_EqualTriplesGiveEqualKeys ==
  ( /\ txOut.phase = "both"
    /\ txIn.first.site = txIn.second.site
    /\ SliceLast(txIn.first.beforeCursor, RecentChars)
         = SliceLast(txIn.second.beforeCursor, RecentChars)
    /\ txIn.first.language = txIn.second.language )
  => txOut.first = txOut.second

\* two calls on texts that differ more than 200 characters before the cursor, and
\* after it, have returned the same key
C14_Witness ==
  /\ txOut.phase = "both"
  /\ txOut.first = txOut.second
  /\ txOut.first # NoKey
  /\ txIn.first.site = txIn.second.site
  /\ txIn.first.language = txIn.second.language
  /\ txIn.first.beforeCursor # txIn.second.beforeCursor
  /\ Len(txIn.first.beforeCursor) > RecentChars
  /\ Len(txIn.second.beforeCursor) > RecentChars
  /\ txIn.first.afterCursor # txIn.second.afterCursor

C16_StreamingFailureFallsBackOnce ==
  /\ \A r \in Requests :
       /\ procs[r].modelCalls <= 2
       /\ procs[r].pc = "fallback_wait" => procs[r].modelCalls = 2
       /\ procs[r].pc \in {"streaming", "batch_wait"} => procs[r].modelCalls = 1
  /\ returned.modelCalls <= 2
  /\ (returned.modelCalls = 2 /\ returned.response.kind = "none")
       => returned.status \in {"failed", "cancelled"}
  /\ (returned.modelCalls = 2 /\ returned.status = "failed" /\ returned.focused)
       => returned.shown = [exists |-> TRUE, state |-> "error",
                            textContent |-> << "Completion failed: ", "model error" >>]

\* a request whose stream and whose fallback both failed has returned, the failure
\* shown
C16_Witness ==
  /\ returned.modelCalls = 2
  /\ returned.status = "failed"
  /\ returned.shown.state = "error"
  /\ ghostTextElement.state = "error"

\* C17: after a request that ended in a failure of the provider (initialization,
\* streaming, batch or parse failure), the engine is usable: the next trigger that
\* is admitted, with no other request pending, starts a request, which goes on to
\* the initialization of the model or to a call of the model, or is served from the
\* cache at once
C17_EngineUsableAfterFailure ==
  [][ ( /\ returned.status \in {"failed", "parse_error", "init_failed"}
        /\ \A r \in Requests : procs[r].pc = "idle"
        /\ lastTriggerTs' # lastTriggerTs
        /\ activeElement # "none"
        /\ siteEnabled )
      => \/ \E r \in Requests :
              procs'[r].pc \in {"init_availability", "streaming", "batch_wait"}
         \/ returned'.status = "cache_hit" ]_vars

\* the first request has failed and returned, and the trigger of the second
\* interval has started a request that is now waiting for the model
C17_Witness ==
  /\ returned.status \in {"failed", "parse_error", "init_failed"}
  /\ lastTriggerTs = 2 * MinTriggerIntervalMs
  /\ procs[1].pc \in {"init_availability", "streaming", "batch_wait"}
  /\ ~procs[1].cancelled
  /\ procs[2].pc = "idle"

\* C18: the engine never stays in the downloading status forever: while it shows the
\* model as downloading and the model is not ready, some call of initializeModel is
\* still waiting for the provider, so that the end of the download is noticed and
\* the request is retried
C18_DownloadingIsAwaited ==
  (isDownloading /\ ~isModelReady)
    => \E r \in Requests :
         procs[r].pc \in {"init_availability", "init_create", "init_summarizer", "init_detector"}

\* once the downloading status is set and no call of initializeModel is pending,
\* no step of the engine ends it or makes the model ready
DownloadingStatusStays ==
  [][ ( /\ isDownloading
        /\ ~isModelReady
        /\ \A r \in Requests : procs[r].pc = "idle" )
      => ( /\ isDownloading'
           /\ ~isModelReady'
           /\ \A r \in Requests : procs'[r].pc = "idle" ) ]_vars

\* the text is the last 800 characters of raw, a text of more than 1000 characters
IsLast800(text, raw) ==
  /\ Len(raw) > 1000
  /\ Len(text) = 800
  /\ \A i \in 1..800 : text[i] = raw[Len(raw) - 800 + i]

\* C19: when the summarizer fails on a text of more than 1000 characters before the
\* cursor, extractContext returns a context whose beforeCursor is the last 800
\* characters of that text, and the request goes on: if it fails later, it is a
\* call of the model that failed
C19_SummarizerFailureTruncates ==
  /\ \A r \in Requests :
       procs[r].ctx.processed = "truncated"
         => /\ procs[r].pc \notin {"idle", "summarizing"}
            /\ IsLast800(ContextBefore(procs[r].ctx), ElementValue(procs[r].ctx.element))
  /\ returned.ctx.processed = "truncated"
       => /\ IsLast800(ContextBefore(returned.ctx), ElementValue(returned.ctx.element))
          /\ returned.status \in {"failed", "parse_error"} => returned.modelCalls >= 1
          /\ returned.status \notin {"placeholder", "init_failed", "no_context", "none"}

\* the summarizer has failed and the request is at the model with the truncated text
C19_Witness ==
  \E r \in Requests :
    /\ procs[r].ctx = [element |-> "essay", processed |-> "truncated"]
    /\ procs[r].pc \in {"streaming", "batch_wait"}
    /\ procs[r].modelCalls = 1

\* the step starts a completion request: an invocation of handleTrigger goes on to
\* initializeModel or generateCompletion and waits there, or runs generateCompletion
\* to its return at once
RequestStarts ==
  \/ \E r \in Requests : procs[r].pc = "idle" /\ procs'[r].pc # "idle"
  \/ /\ \A r \in Requests : procs'[r].pc = procs[r].pc
     /\ returned' # returned
     /\ returned'.status # "placeholder"

\* C20: no step starts a completion request while no text input has the focus or
\* while the preference stored for the host is disabled
C20_NoRequestWithoutFocusOrWhenDisabled ==
  [][ (activeElement = "none" \/ ~sitePrefs) => ~RequestStarts ]_vars

\* the same with the siteEnabled field in the place of the stored preference
NoRequestWithoutFocusOrSiteEnabled ==
  [][ (activeElement = "none" \/ ~siteEnabled) => ~RequestStarts ]_vars

\* C21: the listener of Ctrl+Enter, of the double space and of the punctuation pause
\* calls handleTrigger only while its flag in this.triggers is enabled; with the
\* three flags disabled only Ctrl+Shift+Space calls it
C21_OptionalTriggersNeedTheirFlag ==
  /\ raised.by = "ctrlEnter" => raised.triggers.ctrlEnter
  /\ raised.by = "doubleSpace" => raised.triggers.doubleSpace
  /\ raised.by = "autoAfterPunctuation" => raised.triggers.autoAfterPunctuation
  /\ (raised.by # "none" /\ raised.triggers = NoTriggers) => raised.by = "manual"

\* the same for the two keyboard listeners alone
KeyboardTriggersNeedTheirFlag ==
  /\ raised.by = "ctrlEnter" => raised.triggers.ctrlEnter
  /\ raised.by = "doubleSpace" => raised.triggers.doubleSpace

\* C22: a settings change that carries a cache size replaces the cache: after the
\* step the cache has the capacity carried and holds no entry
C22_SettingsChangeReplacesCache ==
  [][ \A s \in CacheSettings :
        (s.cacheSize # Undefined /\ UpdateSettingsFromObject(s))
          => cache' = NewLRUCache(s.cacheSize) ]_vars

\* the same for the cache sizes above 10
CacheSizeAboveTenReplacesCache ==
  [][ \A s \in CacheSettings :
        (s.cacheSize # Undefined /\ s.cacheSize > 10 /\ UpdateSettingsFromObject(s))
          => cache' = NewLRUCache(s.cacheSize) ]_vars

\* the language of a request that has passed the language detection is the one the
\* claim C23 names: inv is the invocation, or the record of the one that returned
LanguageAsDetected(inv) ==
  LET d        == inv.detection
      accepted == d.results > 0 /\ d.confidence >= 50
  IN  /\ inv.detectCalls = 1 <=> d # NoDetection
      /\ inv.detectCalls = 1 => Len(ContextBefore(inv.ctx)) >= 10
      /\ inv.language = IF inv.detectCalls = 1 /\ accepted THEN d.detectedLanguage
                        ELSE English

\* C23: the language of a request is the top result of the detector only if the
\* detector was called, which needs a context of at least 10 characters, and the
\* top result has a confidence of at least 0.5; otherwise, also when the detector
\* fails or returns no result, it is 'en'
C23_LanguageIsTopResultOrDefault ==
  /\ \A r \in Requests :
       procs[r].pc \in {"streaming", "batch_wait", "fallback_wait"}
         => LanguageAsDetected(procs[r])
  /\ returned.language # << >> => LanguageAsDetected(returned)
  /\ \A r \in Requests :
       (procs[r].pc = "detecting" /\ procs[r].detection = NoDetection)
         => languageDetector /\ procs[r].detectCalls = 1

\* a request with a detector result of confidence 0.5 is at the model in French
C23_Witness ==
  \E r \in Requests :
    /\ procs[r].pc \in {"streaming", "batch_wait"}
    /\ procs[r].detection.confidence = 50
    /\ procs[r].language = French

\* the status and error messages the engine shows while a request runs or fails
StatusMessages ==
  { << "Generating completion..." >>, << "No context available for completion" >>,
    << "No suitable completion found" >>, << "No unique completion generated" >>,
    << "Failed to parse AI response" >>, << "Failed to initialize AI model" >>,
    << "Completion failed: ", "model error" >>, << "Downloading model..." >> }

\* C24: what Tab inserts into the text input is a suggestion of the model, never a
\* status or error message of the overlay
C24_TabInsertsOnlySuggestions ==
  inserted # NoInsert => inserted.text \notin StatusMessages

\* whatever Tab inserts, it is the text kept in currentCompletion for the overlay,
\* and the overlay is cleared
TabInsertsCurrentCompletion ==
  [][ inserted' # inserted
        => /\ inserted'.text \in {currentCompletion, TrimStart(currentCompletion)}
           /\ ghostTextElement' = NoGhost
           /\ currentCompletion' = NullText ]_vars

\* C25: _lastTriggerTs is written only by an admitted trigger: a step taken while no
\* text input has the focus or while the site is disabled leaves it unchanged
C25_TimestampOnlyOnAdmission ==
  [][ lastTriggerTs' # lastTriggerTs => (activeElement # "none" /\ siteEnabled) ]_vars

\* C26: on the streaming path a request whose cleaned buffer has reached maxSentences
\* sentence ends is finalized in the step that takes the chunk, for both delivery
\* styles of the stream: no request is left waiting for the stream after that
C26_EarlyStopFinalizesAtOnce ==
  \A r \in Requests : ~(procs[r].pc = "streaming" /\ procs[r].earlyStop)

\* the same for the async-iterator style alone, where the step that reaches
\* maxSentences sentence ends offers the text and writes it to the cache
IteratorEarlyStopFinalizesAtOnce ==
  /\ [](selfLanguageModel = "iterator" => C26_EarlyStopFinalizesAtOnce)
  /\ [][ \A r \in Requests :
           ( /\ selfLanguageModel = "iterator"
             /\ procs[r].pc = "streaming"
             /\ procs'[r].pc = "idle"
             /\ procs[r].chunks < MaxChunks
             /\ returned' # returned
             /\ returned'.status = "offered"
             /\ ~procs[r].cancelled )
           => ( /\ returned'.cacheWrites = 1
                /\ returned'.stored = returned'.completion
                /\ returned'.stored # NullText
                /\ returned'.focused => returned'.shown.state = "ready" ) ]_vars

\* the text has at most maxSentences sentence ends
WithinMaxSentences(text) == Cardinality(SentenceEnds(text)) <= maxSentences

\* C27: every completion offered to the user or written to the cache has at most
\* maxSentences sentences, on the batch path and the batch fallback as on the
\* streaming path
C27_OfferedAndCachedAreTrimmed ==
  /\ returned.offered # NullText => WithinMaxSentences(returned.offered)
  /\ \A i \in 1..Len(cache.map) : WithinMaxSentences(cache.map[i].value)

\* the same for the requests that ended on the streaming path, and a completion
\* that the trim has shortened
StreamedAreTrimmed ==
  (returned.offered # NullText /\ returned.response = NoResponse)
    => /\ WithinMaxSentences(returned.offered)
       /\ returned.stored # NullText => WithinMaxSentences(returned.stored)

\* C28: in the result of limitToSentenceRange exactly one whitespace character
\* separates two consecutive kept sentences: the whitespace character that follows
\* a sentence end is followed by the first character of the next sentence
C28_SentencesJoinedWithSingleSpaces ==
  txOut.done
    => \A i \in SentenceEnds(txOut.limited) :
         i + 2 <= Len(txOut.limited) => txOut.limited[i + 2] \notin WS

\* C29: a streaming request whose cleaned and trimmed result is empty reports 'No
\* suitable completion found' in an overlay that is not in the error state, and
\* writes nothing to the cache
C29_EmptyStreamResultIsNotAnError ==
  (returned.status = "not_suitable" /\ returned.response = NoResponse)
    => /\ returned.cacheWrites = 0
       /\ returned.stored = NullText
       /\ returned.shown.exists
            => /\ returned.shown.textContent = << "No suitable completion found" >>
               /\ returned.shown.state # "error"

\* the same without the state of the overlay
EmptyStreamResultIsNotCached ==
  (returned.status = "not_suitable" /\ returned.response = NoResponse)
    => /\ returned.cacheWrites = 0
       /\ returned.stored = NullText
       /\ returned.shown.exists
            => returned.shown.textContent = << "No suitable completion found" >>


\* C30: whether the summarization was skipped, has succeeded or has failed, the text
\* given to languageDetector.detect() is contextData.recentText, the last 200
\* characters of the text read before the cursor, and never the processed text
C30_RecentTextIsRawSuffix ==
  \A r \in Requests :
    procs[r].detectArg # NullText
      => LET beforeCursor == ElementValue(procs[r].ctx.element)
             n == Len(beforeCursor)
             recentText == procs[r].detectArg
         IN /\ Len(recentText) = Min2(n, RecentChars)
            /\ \A i \in 1..Len(recentText) :
                 recentText[i] = beforeCursor[n - Len(recentText) + i]

\* the detector is called for a text that was summarized
C30_Witness ==
  \E r \in Requests :
    /\ procs[r].pc = "detecting"
    /\ procs[r].ctx.processed = "summarized"
    /\ Len(ElementValue(procs[r].ctx.element)) > SummarizeThreshold
    /\ procs[r].detectArg # ContextBefore(procs[r].ctx)
    /\ Len(procs[r].detectArg) = RecentChars

\* C31: after any sequence of get and set calls the LRUCache holds at most capacity
\* entries, and the key of the most recent set is held with the value set
C31_BoundedAndLastSetPresent ==
  /\ Len(lruCache.map) <= lruCache.capacity
  /\ lruLastSet # NoSet
       => /\ MapHas(lruCache.map, lruLastSet.key)
          /\ LRUGetValue(lruCache, lruLastSet.key) = lruLastSet.value

\* the last set overflowed a full cache, and a get of another key has followed it
C31_Witness ==
  /\ lruLastSet # NoSet
  /\ Len(lruCache.map) = lruCache.capacity
  /\ lruLast.op = "get"
  /\ lruLast.found
  /\ lruLast.key # lruLastSet.key
  /\ lruOps > lruCache.capacity + 1

\* C32: the keyup listener calls handleTrigger only for a release of Space that
\* follows the previous release by less than 350 ms, the previous release not
\* having completed a pair itself: a single release never raises a trigger
C32_DoubleSpaceNeedsAPair ==
  spaceLog.called
    => /\ spaceLog.prev # -1
       /\ ~spaceLog.prevCalled
       /\ spaceLog.at - spaceLog.prev < 350

\* the same for the releases that come 350 ms or more after the time origin of
\* performance.now()
LateDoubleSpaceNeedsAPair ==
  (spaceLog.called /\ spaceLog.at >= 350)
    => /\ spaceLog.prev # -1
       /\ ~spaceLog.prevCalled
       /\ spaceLog.at - spaceLog.prev < 350

HasBracket(text) == \E i \in 1..Len(text) : text[i] \in {"[", "]"}

\* text holds the letters c, u, r in a row, in either case
HasCur(text) ==
  \E i \in 1..(Len(text) - 2) : ToLowerCase(SubSeq(text, i, i + 2)) = << "c", "u", "r" >>

\* C33: stripCursorArtifacts removes only the marker '[CURSOR]' and partial markers:
\* a text without a bracket comes out unchanged apart from the surrounding whitespace
C33_StripKeepsOrdinaryWords ==
  (txOut.phase = "stripped" /\ ~HasBracket(txOut.prev))
    => txOut.out = Trim(txOut.prev)

\* the same for the texts that hold neither a bracket nor the letters 'cur'
StripKeepsTextsWithoutCur ==
  (txOut.phase = "stripped" /\ ~HasBracket(txOut.prev) /\ ~HasCur(txOut.prev))
    => txOut.out = Trim(txOut.prev)

\* C34: the text component of the cache key, the last 200 characters of
\* contextData.beforeCursor, equals the last 200 characters of the text read before
\* the cursor whether that text was left as it is, summarized or truncated, so the
\* key of a request is the key of the unprocessed text
C34_KeyTextIsRecentText ==
  \A r \in Requests :
    procs[r].key # NoKey
      => /\ SliceLast(ContextBefore(procs[r].ctx), RecentChars)
              = SliceLast(ElementValue(procs[r].ctx.element), RecentChars)
         /\ procs[r].key
              = CacheKeys[[procs[r].ctx EXCEPT !.processed = "raw"], procs[r].language]

\* a request has its key and its text was summarized
C34_Witness ==
  \E r \in Requests :
    /\ procs[r].key # NoKey
    /\ procs[r].ctx.processed = "summarized"
    /\ ContextBefore(procs[r].ctx) # ElementValue(procs[r].ctx.element)

\* the response was an object that the model marked accept = false
Declined(response) == response.kind = "object" /\ ~response.accept

\* C35: the cache holds no completion taken from a response that the model marked
\* accept = false: when the request of such a response returns, the cache has
\* nothing under its key
C35_DeclinedResponseIsNotCached ==
  Declined(returned.response)
    => /\ returned.cacheWrites = 0
       /\ returned.stored = NullText

\* the request of such a response itself offers nothing as ready
DeclinedResponseIsNotOffered ==
  Declined(returned.response)
    => /\ returned.offered = NullText
       /\ returned.shown.exists
            => returned.shown.textContent = << "No suitable completion found" >>

\* C36: a completion whose response had a confidence below 0.3 is labelled as of low
\* confidence every time it is offered, also when a later request with the same key
\* is served from the cache
C36_LowConfidenceLabelledFromCache ==
  (returned.status = "cache_hit" /\ returned.hit = Guess)
    => returned.shown.textContent
         = << "Low confidence completion (press Tab to accept): " >> \o Guess

\* C37: a completion accepted with Tab is inserted at the cursor position saved when
\* its request started: savedCursorPosition is still set (-1 stands for null) when
\* acceptGhostText reads it
C37_AcceptedAtSavedPosition ==
  (inserted # NoInsert /\ returned.offered # NullText /\ inserted.text = returned.offered)
    => /\ inserted.saved # -1
       /\ inserted.at = inserted.saved

\* for a completion that was offered, acceptGhostText never finds a saved position
OfferedCompletionFindsNoSavedPosition ==
  (inserted # NoInsert /\ returned.offered # NullText /\ inserted.text = returned.offered)
    => inserted.saved = -1

\* C38: after any sequence of settings updates minSentences is in 1..3, maxSentences
\* is in 1..6 and minSentences <= maxSentences, so the range minItems..maxItems sent
\* to the model is never empty
C38_SentenceRangeIsNeverEmpty ==
  /\ minSentences \in 1..3
  /\ maxSentences \in 1..6
  /\ minSentences <= maxSentences

\* each of the two numbers stays in its own range
SentenceNumbersAreClamped ==
  /\ minSentences \in 1..3
  /\ maxSentences \in 1..6

\* the invocations of handleTrigger that are inside initializeModel
Initializing ==
  {r \in Requests :
     procs[r].pc \in {"init_availability", "init_create", "init_summarizer", "init_detector"}}

\* C39: at most one initialization of the model is in progress at a time: a trigger
\* admitted while an initialization is pending starts no second one
C39_OneInitializationAtATime == Cardinality(Initializing) <= 1

\* while the engine is marked as downloading or ready no trigger starts an
\* initialization
NoInitializationStartsWhenMarked ==
  [][ (isDownloading \/ isModelReady)
        => {r \in Requests : procs'[r].pc = "init_availability"}
             \subseteq {r \in Requests : procs[r].pc = "init_availability"} ]_vars

\* C40: every cache capacity the options page stores, an integer from 10 to 500, is
\* applied by the engine when the settings change arrives: afterwards the capacity
\* of the engine's cache is the stored value
C40_StoredCapacityIsApplied ==
  [][ \A s \in CacheSettings :
        (s.cacheSize \in 10..500 /\ UpdateSettingsFromObject(s))
          => cache'.capacity = s.cacheSize ]_vars

\* the same for the capacities from 11 to 500
CapacityAboveTenIsApplied ==
  [][ \A s \in CacheSettings :
        (s.cacheSize \in 11..500 /\ UpdateSettingsFromObject(s))
          => cache'.capacity = s.cacheSize ]_vars
====
